---- MODULE Spec2Model ----
(***************************************************************************)
(* LangConnect MCP control plane: the Registry (mcp_registry.py), the      *)
(* Container Supervisor (docker_manager.py), the Auth Token Manager        *)
(* (auth_manager.py) and the Controller endpoints (mcp_controller.py).     *)
(*                                                                         *)
(* Spec is the request-at-a-time system: every Controller action is one    *)
(* whole request handler, run from its first line to its response.  A      *)
(* handler is an operator from the state, the request and the outcome o of *)
(* its calls into the environment (the container runtime, the identity     *)
(* provider) to the state it leaves and the response it gives; its action  *)
(* applies it.  SpecManager and SpecProactive are the Auth Token Manager   *)
(* with its refresh tasks, each call and each task run from one await to   *)
(* the next; SpecOverlap is the Controller with start and stop requests    *)
(* that overlap.  SpecEnvironment is Spec with requests that carry          *)
(* environments, SpecRuntime is Spec with a runtime that moves containers  *)
(* through every state word, and SpecScheduler is the event loop that runs *)
(* the handlers and the log streams one step at a time.  SpecRegistry is   *)
(* the Controller with create and update requests that overlap, and        *)
(* SpecBinding is Spec with a runtime that publishes each host port once.  *)
(* SpecClock is the lifecycle of the servers while time passes, and        *)
(* SpecConcurrent is the Auth Token Manager with two callers at a time.    *)
(***************************************************************************)
EXTENDS Integers, Sequences, FiniteSets, TLC

VARIABLES
    servers,      \* table mcp_servers: id -> [id, config, status, created_by]
    nextId,       \* how many uuid4 values register_server has drawn
    containers,   \* the runtime: container id -> [name, server_id,
                  \* environment, state]
    nextCid,      \* how many containers the runtime has created
    tokens,       \* AuthManager._tokens: user_id -> AuthToken
    now,          \* the clock (UTC), in minutes
    zone,         \* the offset of the host's local time from UTC, in minutes
    refresh_tasks, \* AuthManager._refresh_tasks: user_id -> task
    tasks,        \* the asyncio tasks created so far: task -> its state
    calls,        \* the AuthManager calls awaiting an answer: slot -> call
    requests      \* the start, stop and log requests run await by await,
                  \* in the order they arrived

vars == <<servers, nextId, containers, nextCid, tokens, now, zone,
          refresh_tasks, tasks, calls, requests>>

\* the state of the Registry, the runtime and the requests in progress
controlVars == <<servers, nextId, containers, nextCid, requests>>
\* the state of the host and of the refresh tasks
managerVars == <<zone, refresh_tasks, tasks, calls>>

----------------------------------------------------------------------------
\* Bounds of the model

\* registrations (ids drawn) in one behaviour
MaxIds == 2
\* containers the runtime creates in one behaviour
MaxCids == 2
\* users holding a cached token at one time
MaxTokens == 1
\* refresh tasks created in one behaviour
MaxTasks == 2
\* start and stop requests run await by await in one behaviour
MaxRequests == 3
\* log streams opened in one behaviour
MaxStreams == 1
\* minutes the clock runs in one behaviour
MaxTime == 5

----------------------------------------------------------------------------
\* Values

\* Python's None, and Optional[T] values: None or Some(x)
None == <<>>
Some(x) == <<x>>

\* authenticated callers; the ownership check only compares user ids, so one
\* user who registers servers and one who does not give both of its branches
Users == {"u1", "u2"}
Registrants == {"u1"}

\* names a create request may carry; BadName is not alphanumeric
ReqNames == {"a", "A", "b"}
BadName == "a!"

\* str.lower() on the request names
Lower(n) == IF n = "A" THEN "a" ELSE n

\* v.replace("-", "").replace("_", "").isalnum()
IsAlnumName(n) == n \in {"a", "A", "b"}

\* _get_next_available_port(start_port=8765)
StartPort == 8765
\* Field(8765, ge=1024, le=65535)
PortMin == 1024
PortMax == 65535

\* ports a create request may carry (None: auto-assign); 80 is out of range
ReqPorts == {None, Some(StartPort + 1)}
BadPort == 80

\* images the runtime can resolve, and images a request may name
Images == {"img"}
ReqImages == {"img", "ghost"}

Descriptions == {"d"}

\* ServerTransport.SSE
SSE == "sse"

\* dict[str, str]: a function from its keys to its values
EmptyDict == [k \in {} |-> ""]

\* {**under, **over}: of a key both define, the later entry stays
Spread(under, over) ==
    [k \in DOMAIN under \cup DOMAIN over |->
        IF k \in DOMAIN over THEN over[k] ELSE under[k]]

ServerId(i) == "s" \o ToString(i)
ContainerId(i) == "c" \o ToString(i)

\* ServerStatus
STOPPED == "stopped"
STARTING == "starting"
RUNNING == "running"
STOPPING == "stopping"
ERROR == "error"
UNHEALTHY == "unhealthy"

\* MCPServerStatus(server_id=..., status=...) with the model's defaults
MCPServerStatus(sid, st) ==
    [server_id |-> sid, status |-> st, container_id |-> None,
     started_at |-> None, stopped_at |-> None,
     health_check_passed |-> FALSE, last_health_check |-> None,
     error_message |-> None]

\* MCPServer.container_name / the Supervisor's f"mcp-{config.name}"
container_name(name) == "mcp-" \o name

\* a start gate that lets every state through
can_start_any(server) == TRUE

\* MCPServer.can_start
can_start(server) == server.status.status \in {STOPPED, ERROR}

\* MCPServer.can_stop
can_stop(server) == server.status.status \in {RUNNING, UNHEALTHY}

\* m without key k / m with k set to v
Without(m, k) == [x \in DOMAIN m \ {k} |-> m[x]]
With(m, k, v) == [x \in DOMAIN m \cup {k} |-> IF x = k THEN v ELSE m[x]]

----------------------------------------------------------------------------
\* Registry (mcp_registry.py)

UsedPorts(reg) == {reg[i].config.port : i \in DOMAIN reg}

\* an allocator that does not look at the ports in use
FirstPort(reg, start_port) == start_port

\* an allocator that goes past the largest port in use
PortAfterLargest(reg, start_port) ==
    LET used == UsedPorts(reg) \cup {start_port - 1}
    IN  (CHOOSE p \in used : \A q \in used : q <= p) + 1

\* the while loop of _get_next_available_port
RECURSIVE ScanPort(_, _)
ScanPort(used, port) == IF port \in used THEN ScanPort(used, port + 1) ELSE port

_get_next_available_port(reg, start_port) == ScanPort(UsedPorts(reg), start_port)

\* MCPServerConfig(...): the validators of name and port
ConfigValid(name, port) ==
    /\ IsAlnumName(name)
    /\ port >= PortMin
    /\ port <= PortMax

\* a name column without its UNIQUE constraint
NameNeverTaken(reg, name) == FALSE

\* the UNIQUE constraint on column name
NameTaken(reg, name) == \E i \in DOMAIN reg : reg[i].config.name = name

\* register_server: [ok, error, servers, server]
register_server(reg, id, req, user_id) ==
    LET port == IF req.port = None
                THEN _get_next_available_port(reg, StartPort)
                ELSE req.port[1]
        server == [id |-> id,
                   config |-> [name |-> Lower(req.name),
                               description |-> req.description,
                               transport |-> req.transport,
                               port |-> port,
                               environment |-> req.environment,
                               docker_image |-> req.docker_image],
                   status |-> MCPServerStatus(id, STOPPED),
                   created_by |-> user_id]
    IN  IF ~ConfigValid(req.name, port)
        THEN [ok |-> FALSE, error |-> "validation error", servers |-> reg]
        ELSE IF NameTaken(reg, server.config.name)
        THEN [ok |-> FALSE,
              error |-> "Server name '" \o req.name \o "' already exists",
              servers |-> reg]
        ELSE [ok |-> TRUE, error |-> "", servers |-> With(reg, id, server)]

\* an update that stores the patch as the whole config: a field the patch
\* leaves out goes back to its default
registry_replace_config(reg, id, patch) ==
    IF id \notin DOMAIN reg THEN reg
    ELSE [reg EXCEPT
            ![id].config.description =
                IF patch.description = None THEN "" ELSE patch.description[1],
            ![id].config.environment =
                IF patch.environment = None THEN EmptyDict
                ELSE patch.environment[1]]

\* update_server: only the patch's fields that are set and not None
registry_update_server(reg, id, patch) ==
    IF id \notin DOMAIN reg THEN reg
    ELSE [reg EXCEPT
            ![id].config.description =
                IF patch.description = None THEN @ ELSE patch.description[1],
            ![id].config.environment =
                IF patch.environment = None THEN @ ELSE patch.environment[1]]

\* a status update that also stores the status's server_id as the row's id
registry_update_status_and_id(reg, id, status) ==
    IF id \in DOMAIN reg
    THEN [reg EXCEPT ![id].status = status, ![id].id = status.server_id]
    ELSE reg

\* update_server_status: UPDATE ... SET status = $2 WHERE id = $1
registry_update_server_status(reg, id, status) ==
    IF id \in DOMAIN reg THEN [reg EXCEPT ![id].status = status] ELSE reg

\* a delete that removes no row
registry_keep_server(reg, id) == reg

\* delete_server: DELETE FROM mcp_servers WHERE id = $1
registry_delete_server(reg, id) == Without(reg, id)

----------------------------------------------------------------------------
\* Container Supervisor (docker_manager.py).  Each operation is a function of
\* the runtime's containers and of the outcome o of its runtime calls: a
\* field of o that is FALSE means that call raised.

Booleans == {TRUE, FALSE}

\* an Error status that drops the exception's message
StatusWithoutMessage(msg) == MCPServerStatus("", ERROR)

\* an Error status built in an except branch: no server_id, no container_id
ErrorStatus(msg) ==
    [MCPServerStatus("", ERROR) EXCEPT !.error_message = Some(msg)]

\* what str(e) gives for a runtime call that raised
ApiError == "APIError"

\* _get_container: by id or by name, None when there is none.  (A lookup the
\* runtime fails to answer gives None as well; the runtime of this model
\* answers its lookups, and fails only the calls that act on a container.)
_get_container(ctrs, key) ==
    LET found == {c \in DOMAIN ctrs : c = key \/ ctrs[c].name = key}
    IN  IF found # {} THEN Some(CHOOSE c \in found : TRUE) ELSE None

\* a remove that reports success and removes nothing
remove_nothing(ctrs, key, o) == [ctrs |-> ctrs, ok |-> TRUE]

\* a remove that reports a missing container as a failure
remove_strict(ctrs, key, o) ==
    LET container == _get_container(ctrs, key)
    IN  IF container = None THEN [ctrs |-> ctrs, ok |-> FALSE]
        ELSE IF ~o.call THEN [ctrs |-> ctrs, ok |-> FALSE]
        ELSE [ctrs |-> Without(ctrs, container[1]), ok |-> TRUE]

\* remove_container(force=True): [ctrs, ok]
remove_container(ctrs, key, o) ==
    LET container == _get_container(ctrs, key)
    IN  IF container = None THEN [ctrs |-> ctrs, ok |-> TRUE]
        ELSE IF ~o.call THEN [ctrs |-> ctrs, ok |-> FALSE]
        ELSE [ctrs |-> Without(ctrs, container[1]), ok |-> TRUE]

\* the keys create_container writes before it spreads config.environment
fixed_environment(server_id, config) ==
    [MCP_SERVER_NAME |-> config.name,
     MCP_SERVER_ID |-> server_id,
     MCP_TRANSPORT |-> config.transport,
     MCP_PORT |-> ToString(config.port)]

\* create_container: [ctrs, container_id, status]; cid is the id the runtime
\* gives the container if it creates one
create_container(ctrs, cid, server_id, config, o) ==
    LET name == container_name(config.name)
        existing == _get_container(ctrs, name)
        kept == IF existing # None
                THEN remove_container(ctrs, name, [call |-> o.rm]).ctrs
                ELSE ctrs
        environment == Spread(fixed_environment(server_id, config),
                              config.environment)
    IN  IF config.docker_image \notin Images
        THEN [ctrs |-> kept, container_id |-> "",
              status |-> [MCPServerStatus(server_id, ERROR) EXCEPT
                            !.error_message =
                                Some("Docker image not found: "
                                     \o config.docker_image)]]
        ELSE IF ~o.call \/ _get_container(kept, name) # None
        THEN [ctrs |-> kept, container_id |-> "",
              status |-> [MCPServerStatus(server_id, ERROR) EXCEPT
                            !.error_message = Some(ApiError)]]
        ELSE [ctrs |-> With(kept, cid, [name |-> name,
                                        server_id |-> server_id,
                                        environment |-> environment,
                                        state |-> "created"]),
              container_id |-> cid,
              status |-> [MCPServerStatus(server_id, STOPPED) EXCEPT
                            !.container_id = Some(cid)]]

\* a status after reload() that forgets when the container started
StartedWithoutTime(container, c, t, verb) ==
    IF container.state = "running"
    THEN [MCPServerStatus(container.server_id, RUNNING) EXCEPT
            !.container_id = Some(c)]
    ELSE [MCPServerStatus(container.server_id, ERROR) EXCEPT
            !.container_id = Some(c),
            !.error_message = Some("Container failed to " \o verb \o ": "
                                   \o container.state)]

\* the status start_container and restart_container build after reload()
StartedStatus(container, c, t, verb) ==
    IF container.state = "running"
    THEN [MCPServerStatus(container.server_id, RUNNING) EXCEPT
            !.container_id = Some(c), !.started_at = Some(t)]
    ELSE [MCPServerStatus(container.server_id, ERROR) EXCEPT
            !.container_id = Some(c),
            !.error_message = Some("Container failed to " \o verb \o ": "
                                   \o container.state)]

\* start_container: [ctrs, status]
start_container(ctrs, key, t, o) ==
    LET container == _get_container(ctrs, key)
    IN  IF container = None
        THEN [ctrs |-> ctrs, status |-> ErrorStatus("Container not found")]
        ELSE IF ~o.call
        THEN [ctrs |-> ctrs, status |-> ErrorStatus(ApiError)]
        ELSE LET c == container[1]
                 started == [ctrs EXCEPT ![c].state =
                                IF o.up THEN "running" ELSE "exited"]
             IN  IF ~o.reload
                 THEN [ctrs |-> started, status |-> ErrorStatus(ApiError)]
                 ELSE [ctrs |-> started,
                       status |-> StartedStatus(started[c], c, t, "start")]

\* a stop whose status carries both times, the start after the stop
stop_with_later_start(ctrs, key, t, o) ==
    LET container == _get_container(ctrs, key)
    IN  IF container = None
        THEN [ctrs |-> ctrs, status |-> ErrorStatus("Container not found")]
        ELSE IF ~o.call
        THEN [ctrs |-> ctrs, status |-> ErrorStatus(ApiError)]
        ELSE LET c == container[1]
             IN  [ctrs |-> [ctrs EXCEPT ![c].state =
                              IF @ = "created" THEN @ ELSE "exited"],
                  status |-> [MCPServerStatus(ctrs[c].server_id, STOPPED)
                              EXCEPT !.container_id = Some(c),
                                     !.stopped_at = Some(t),
                                     !.started_at = Some(t + 1)]]

\* stop_container: [ctrs, status]
stop_container(ctrs, key, t, o) ==
    LET container == _get_container(ctrs, key)
    IN  IF container = None
        THEN [ctrs |-> ctrs, status |-> ErrorStatus("Container not found")]
        ELSE IF ~o.call
        THEN [ctrs |-> ctrs, status |-> ErrorStatus(ApiError)]
        ELSE LET c == container[1]
             IN  [ctrs |-> [ctrs EXCEPT ![c].state =
                              IF @ = "created" THEN @ ELSE "exited"],
                  status |-> [MCPServerStatus(ctrs[c].server_id, STOPPED)
                              EXCEPT !.container_id = Some(c),
                                     !.stopped_at = Some(t)]]

\* restart_container: [ctrs, status]
restart_container(ctrs, key, t, o) ==
    LET container == _get_container(ctrs, key)
    IN  IF container = None
        THEN [ctrs |-> ctrs, status |-> ErrorStatus("Container not found")]
        ELSE IF ~o.call
        THEN [ctrs |-> ctrs, status |-> ErrorStatus(ApiError)]
        ELSE LET c == container[1]
                 started == [ctrs EXCEPT ![c].state =
                                IF o.up THEN "running" ELSE "exited"]
             IN  IF ~o.reload
                 THEN [ctrs |-> started, status |-> ErrorStatus(ApiError)]
                 ELSE [ctrs |-> started,
                       status |-> StartedStatus(started[c], c, t, "restart")]

\* a map that reads a paused container as running
status_map_paused_running(word) ==
    CASE word = "running" -> RUNNING
      [] word = "exited" -> STOPPED
      [] word = "paused" -> RUNNING
      [] word = "restarting" -> STARTING
      [] word = "dead" -> ERROR
      [] OTHER -> ERROR

\* status_map.get(container.status, ServerStatus.ERROR)
status_map(word) ==
    CASE word = "running" -> RUNNING
      [] word = "exited" -> STOPPED
      [] word = "paused" -> STOPPED
      [] word = "restarting" -> STARTING
      [] word = "dead" -> ERROR
      [] OTHER -> ERROR

\* _check_container_health, for a container with no runtime health check
_check_container_health(container) == container.state = "running"

\* get_container_status: None or Some(status)
get_container_status(ctrs, key, t, o) ==
    LET container == _get_container(ctrs, key)
    IN  IF container = None \/ ~o.call THEN None
        ELSE LET c == container[1]
             IN  Some([MCPServerStatus(ctrs[c].server_id,
                                       status_map(ctrs[c].state)) EXCEPT
                         !.container_id = Some(c),
                         !.health_check_passed =
                             _check_container_health(ctrs[c]),
                         !.last_health_check = Some(t)])

\* health_check: [healthy, error]
health_check(ctrs, key, o) ==
    LET container == _get_container(ctrs, key)
    IN  IF container = None
        THEN [healthy |-> FALSE, error |-> Some("Container not found")]
        ELSE IF ~o.call
        THEN [healthy |-> FALSE, error |-> Some(ApiError)]
        ELSE IF ctrs[container[1]].state # "running"
        THEN [healthy |-> FALSE,
              error |-> Some("Container is " \o ctrs[container[1]].state)]
        ELSE [healthy |-> TRUE, error |-> None]

\* list_mcp_containers: the info of every container, [] when the call raised
list_mcp_containers(ctrs, o) ==
    IF ~o.call THEN {}
    ELSE {[id |-> c, name |-> ctrs[c].name, status |-> ctrs[c].state,
           server_id |-> ctrs[c].server_id] : c \in DOMAIN ctrs}

----------------------------------------------------------------------------
\* Auth Token Manager (auth_manager.py), as the Controller uses it

\* timedelta(minutes=5) of get_token
ExpiryBufferMinutes == 5
\* timedelta(minutes=10) of _refresh_loop
RefreshLeadMinutes == 10

\* lifetimes (minutes) of the tokens the identity provider issues
Lifetimes == {3, 15}

\* offsets from UTC (minutes) of the hosts the service runs on
Zones == {-60, 0, 60}

\* datetime.fromtimestamp(ts): the naive local time of the host at the POSIX
\* time ts; datetime.utcnow(): the naive UTC time at the clock's time t
fromtimestamp(ts) == ts + zone
utcnow(t) == t

\* AuthToken; the access token is what _decode_token reads from it
AuthToken(user_id, exp, refresh) ==
    [access_token |-> [sub |-> user_id, exp |-> exp],
     refresh_token |-> refresh,
     expires_at |-> fromtimestamp(exp),
     user_id |-> user_id]

\* refresh_token gets past its first check and sends its POST
can_refresh(toks, user_id) ==
    user_id \in DOMAIN toks /\ toks[user_id].refresh_token # None

\* a refresh whose failure evicts the cached token
refresh_evicting(toks, user_id, current_token, t, o) ==
    IF o.raised \/ ~o.ok
    THEN [tokens |-> Without(toks, user_id), token |-> None, posts |-> 1]
    ELSE LET new_token == AuthToken(user_id, t + o.life,
                                    current_token.refresh_token)
         IN  [tokens |-> With(toks, user_id, new_token),
              token |-> Some(new_token), posts |-> 1]

\* refresh_token from the answer to its POST on: [tokens, token, posts].
\* current_token is the token the call read before the POST; o.raised: the
\* POST raises (network error); o.ok: the provider answers 200, with a token
\* of lifetime o.life and no new refresh token
refresh_answered(toks, user_id, current_token, t, o) ==
    IF o.raised THEN [tokens |-> toks, token |-> None, posts |-> 1]
    ELSE IF ~o.ok THEN [tokens |-> toks, token |-> None, posts |-> 1]
    ELSE LET new_token == AuthToken(user_id, t + o.life,
                                    current_token.refresh_token)
         IN  [tokens |-> With(toks, user_id, new_token),
              token |-> Some(new_token), posts |-> 1]

\* refresh_token, its POST answered at once: [tokens, token, posts], posts
\* the number of requests sent to the identity provider
refresh_token(toks, user_id, t, o) ==
    IF ~can_refresh(toks, user_id)
    THEN [tokens |-> toks, token |-> None, posts |-> 0]
    ELSE refresh_answered(toks, user_id, toks[user_id], t, o)

\* get_token reads the cached token as due for a refresh
due(toks, user_id, t) ==
    utcnow(t) >= toks[user_id].expires_at - ExpiryBufferMinutes

\* a get_token that never refreshes
get_token_cached(toks, user_id, t, o) ==
    IF user_id \notin DOMAIN toks
    THEN [tokens |-> toks, token |-> None, posts |-> 0]
    ELSE [tokens |-> toks, token |-> Some(toks[user_id].access_token),
          posts |-> 0]

\* get_token: [tokens, token, posts], token the access token or None
get_token(toks, user_id, t, o) ==
    IF user_id \notin DOMAIN toks
    THEN [tokens |-> toks, token |-> None, posts |-> 0]
    ELSE IF due(toks, user_id, t)
    THEN LET r == refresh_token(toks, user_id, t, o)
         IN  [tokens |-> r.tokens,
              token |-> IF r.token = None THEN None
                        ELSE Some(r.token[1].access_token),
              posts |-> r.posts]
    ELSE [tokens |-> toks, token |-> Some(toks[user_id].access_token),
          posts |-> 0]

\* get_user_tokens: the access tokens not yet expired by the cache's reading
get_user_tokens(toks, t) ==
    [u \in {v \in DOMAIN toks : utcnow(t) < toks[v].expires_at} |->
        toks[u].access_token]

\* An asyncio task running _refresh_loop(user_id).  pc: "created" (not yet
\* run), "sleep" (in asyncio.sleep until wake), "post" (in refresh_token,
\* awaiting the provider, having read current), "done" (returned),
\* "cancelled" (ended by CancelledError); must_cancel: cancel() was called
\* and the CancelledError is not yet delivered
Task(user_id, pc, wake, current) ==
    [user_id |-> user_id, pc |-> pc, must_cancel |-> FALSE, wake |-> wake,
     current |-> current]

Terminated(task) == task.pc \in {"done", "cancelled"}

\* a cancel() that the task never notices
cancel_ignored(task) == task

\* Task.cancel(): no effect on a task that has ended
cancel(task) ==
    IF Terminated(task) THEN task ELSE [task EXCEPT !.must_cancel = TRUE]

\* _refresh_loop at its call of refresh_token, up to the POST
loop_refresh(toks, user_id) ==
    IF can_refresh(toks, user_id)
    THEN Task(user_id, "post", 0, Some(toks[user_id]))
    ELSE Task(user_id, "done", 0, None)

\* _refresh_loop from the head of its while to its next await
loop_head(toks, user_id, t) ==
    IF user_id \notin DOMAIN toks THEN Task(user_id, "done", 0, None)
    ELSE LET refresh_at == toks[user_id].expires_at - RefreshLeadMinutes
             wait == IF refresh_at - utcnow(t) > 0
                     THEN refresh_at - utcnow(t) ELSE 0
         IN  IF wait > 0 THEN Task(user_id, "sleep", t + wait, None)
             ELSE loop_refresh(toks, user_id)

\* a start of a refresh task that leaves the earlier task running
start_without_cancel(rt, ts, user_id) ==
    [refresh_tasks |-> With(rt, user_id, Len(ts) + 1),
     tasks |-> Append(ts, Task(user_id, "created", 0, None))]

\* _start_refresh_task: [refresh_tasks, tasks]
_start_refresh_task(rt, ts, user_id) ==
    LET cancelled == IF user_id \in DOMAIN rt
                     THEN [ts EXCEPT ![rt[user_id]] = cancel(@)]
                     ELSE ts
    IN  [refresh_tasks |-> With(rt, user_id, Len(ts) + 1),
         tasks |-> Append(cancelled, Task(user_id, "created", 0, None))]

\* sign_in once the provider has answered 200 with a token of lifetime life
\* and the refresh token refresh: [tokens, refresh_tasks, tasks]
sign_in(toks, rt, ts, user_id, t, life, refresh) ==
    LET started == _start_refresh_task(rt, ts, user_id)
    IN  [tokens |-> With(toks, user_id, AuthToken(user_id, t + life, refresh)),
         refresh_tasks |-> started.refresh_tasks,
         tasks |-> started.tasks]

\* a sign_out that leaves the cached token
sign_out_keeping(toks, rt, ts, user_id) ==
    [tokens |-> toks,
     refresh_tasks |-> Without(rt, user_id),
     tasks |-> IF user_id \in DOMAIN rt
               THEN [ts EXCEPT ![rt[user_id]] = cancel(@)] ELSE ts]

\* sign_out: [tokens, refresh_tasks, tasks]
sign_out(toks, rt, ts, user_id) ==
    [tokens |-> Without(toks, user_id),
     refresh_tasks |-> Without(rt, user_id),
     tasks |-> IF user_id \in DOMAIN rt
               THEN [ts EXCEPT ![rt[user_id]] = cancel(@)] ELSE ts]

\* a close that cancels no task
close_without_cancel(rt, ts) == ts

\* close up to its gather: every task of _refresh_tasks is cancelled
close_cancel(rt, ts) ==
    [i \in DOMAIN ts |->
        IF \E u \in DOMAIN rt : rt[u] = i THEN cancel(ts[i]) ELSE ts[i]]

----------------------------------------------------------------------------
\* Controller (mcp_controller.py).  A handler gives
\* [servers, containers, tokens, response]: the registry, the runtime and the
\* token cache as the request leaves them, and what the client gets.

\* code: the HTTP status; detail: the detail of an HTTPException or the
\* message of a ServerActionResponse; success: its success flag; body: the
\* record the response carries (a server or a status), if any
Response(code, detail, success, body) ==
    [code |-> code, detail |-> detail, success |-> success, body |-> body]

HTTPException(code, detail) == Response(code, detail, FALSE, None)

Result(reg, ctrs, toks, response) ==
    [servers |-> reg, containers |-> ctrs, tokens |-> toks,
     response |-> response]

\* the request ends without having written anything
Refused(response) == Result(servers, containers, tokens, response)

\* outcomes of the runtime calls of one Supervisor operation
CallOutcomes == [call : Booleans]
CreateOutcomes == [rm : Booleans, call : Booleans]
StartOutcomes ==
    {o \in [call : Booleans, up : Booleans, reload : Booleans] :
        ~o.call => (~o.up /\ ~o.reload)}
\* answers of the identity provider to a refresh
ProviderOutcomes ==
    {o \in [raised : Booleans, ok : Booleans, life : Lifetimes] :
        /\ o.raised => ~o.ok
        /\ ~o.ok => \A l \in Lifetimes : o.life <= l}

\* GET /servers: the caller's records, of the given status if one is given
list_servers(u, status) ==
    Refused(Response(200, "", TRUE,
                     Some({servers[i] : i \in
                             {j \in DOMAIN servers :
                                 /\ servers[j].created_by = u
                                 /\ status # None =>
                                        servers[j].status.status = status[1]}})))

\* the except clauses of create_server: what the client gets for an
\* exception raised inside its try block
create_server_except(type, detail) ==
    IF type = "ValueError"
    THEN HTTPException(400, detail)
    ELSE HTTPException(500, "Failed to create server")

\* POST /servers
create_server(u, req, o) ==
    LET id == ServerId(nextId)
        reg == register_server(servers, id, req, u)
        made == create_container(containers, ContainerId(nextCid), id,
                                 reg.servers[id].config, o)
        done == registry_update_server_status(
                    reg.servers, id, [made.status EXCEPT !.server_id = id])
    IN  IF ~reg.ok
        THEN Refused(create_server_except("ValueError", reg.error))
        ELSE IF made.status.status = ERROR
        THEN Result(registry_delete_server(reg.servers, id), made.ctrs,
                    tokens,
                    create_server_except("HTTPException",
                                         made.status.error_message[1]))
        ELSE Result(done, made.ctrs, tokens,
                    Response(200, "", TRUE, Some(done[id])))

\* a lookup with no ownership check
AccessByLookup(u, sid) ==
    IF sid \notin DOMAIN servers
    THEN Some(HTTPException(404, "Server not found"))
    ELSE None

\* the lookup and the ownership check every per-server endpoint starts with:
\* None when the request may go on
Access(u, sid) ==
    IF sid \notin DOMAIN servers
    THEN Some(HTTPException(404, "Server not found"))
    ELSE IF servers[sid].created_by # u
    THEN Some(HTTPException(403, "Access denied"))
    ELSE None

\* GET /servers/{server_id}
get_server(u, sid) ==
    IF Access(u, sid) # None THEN Refused(Access(u, sid)[1])
    ELSE Refused(Response(200, "", TRUE, Some(servers[sid])))

\* PUT /servers/{server_id}
update_server(u, sid, patch) ==
    LET updated == registry_update_server(servers, sid, patch)
    IN  IF Access(u, sid) # None THEN Refused(Access(u, sid)[1])
        ELSE Result(updated, containers, tokens,
                    Response(200, "", TRUE, Some(updated[sid])))

\* DELETE /servers/{server_id}
delete_server(u, sid, o) ==
    LET server == servers[sid]
        ctrs == IF server.status.container_id # None
                THEN remove_container(containers,
                                      server.status.container_id[1], o).ctrs
                ELSE containers
    IN  IF Access(u, sid) # None THEN Refused(Access(u, sid)[1])
        ELSE Result(registry_delete_server(servers, sid), ctrs, tokens,
                    Response(200, "deleted successfully", TRUE, None))

\* POST /servers/{server_id}/start
start_server(u, sid, o) ==
    LET server == servers[sid]
        auth == get_token(tokens, u, now, o.provider)
        fresh == server.status.container_id = None
        config == IF auth.token = None THEN server.config
                  ELSE [server.config EXCEPT
                          !.environment =
                              Spread(@, [SUPABASE_JWT_SECRET |->
                                            auth.token[1]])]
        made == create_container(containers, ContainerId(nextCid),
                                 server.id, config, o.create)
        ctrs == IF fresh THEN made.ctrs ELSE containers
        cid == IF fresh THEN made.container_id
               ELSE server.status.container_id[1]
        started == start_container(ctrs, cid, now, o.start)
        reg == registry_update_server_status(servers, sid, started.status)
    IN  IF Access(u, sid) # None THEN Refused(Access(u, sid)[1])
        ELSE IF ~can_start(server)
        THEN Refused(HTTPException(400, "Server cannot be started from "
                                        \o server.status.status \o " state"))
        ELSE IF fresh /\ made.status.status = ERROR
        THEN Result(servers, made.ctrs, auth.tokens,
                    HTTPException(500, made.status.error_message[1]))
        ELSE Result(reg, started.ctrs, auth.tokens,
                    Response(200,
                             IF started.status.status = RUNNING
                             THEN "started successfully"
                             ELSE "Failed to start server: "
                                  \o started.status.error_message[1],
                             started.status.status = RUNNING,
                             Some(reg[sid])))

\* POST /servers/{server_id}/stop
stop_server(u, sid, o) ==
    LET server == servers[sid]
        stopped == stop_container(containers, server.status.container_id[1],
                                  now, o)
        reg == registry_update_server_status(servers, sid, stopped.status)
    IN  IF Access(u, sid) # None THEN Refused(Access(u, sid)[1])
        ELSE IF ~can_stop(server)
        THEN Refused(HTTPException(400, "Server cannot be stopped from "
                                        \o server.status.status \o " state"))
        ELSE IF server.status.container_id = None
        THEN Refused(HTTPException(400, "No container found for server"))
        ELSE Result(reg, stopped.ctrs, tokens,
                    Response(200,
                             IF stopped.status.status = STOPPED
                             THEN "stopped successfully"
                             ELSE "Failed to stop server: "
                                  \o stopped.status.error_message[1],
                             stopped.status.status = STOPPED,
                             Some(reg[sid])))

\* POST /servers/{server_id}/restart
restart_server(u, sid, o) ==
    LET server == servers[sid]
        auth == get_token(tokens, u, now, o.provider)
        restarted == restart_container(containers,
                                       server.status.container_id[1], now,
                                       o.start)
        reg == registry_update_server_status(servers, sid, restarted.status)
    IN  IF Access(u, sid) # None THEN Refused(Access(u, sid)[1])
        ELSE IF server.status.container_id = None
        THEN Refused(HTTPException(400, "No container found for server"))
        ELSE Result(reg, restarted.ctrs, auth.tokens,
                    Response(200,
                             IF restarted.status.status = RUNNING
                             THEN "restarted successfully"
                             ELSE "Failed to restart server: "
                                  \o restarted.status.error_message[1],
                             restarted.status.status = RUNNING,
                             Some(reg[sid])))

\* a status request that returns the inspect result and persists nothing
get_server_status_unsaved(u, sid, o) ==
    LET server == servers[sid]
        status == get_container_status(containers,
                                       server.status.container_id[1], now, o)
    IN  IF Access(u, sid) # None THEN Refused(Access(u, sid)[1])
        ELSE IF server.status.container_id = None
        THEN Refused(Response(200, "", TRUE, Some(server.status)))
        ELSE IF status # None
        THEN Refused(Response(200, "", TRUE, status))
        ELSE Refused(Response(200, "", TRUE, Some(server.status)))

\* GET /servers/{server_id}/status
get_server_status(u, sid, o) ==
    LET server == servers[sid]
        status == get_container_status(containers,
                                       server.status.container_id[1], now, o)
    IN  IF Access(u, sid) # None THEN Refused(Access(u, sid)[1])
        ELSE IF server.status.container_id = None
        THEN Refused(Response(200, "", TRUE, Some(server.status)))
        ELSE IF status # None
        THEN Result(registry_update_server_status(servers, sid, status[1]),
                    containers, tokens, Response(200, "", TRUE, status))
        ELSE Refused(Response(200, "", TRUE, Some(server.status)))

\* GET /servers/{server_id}/logs: the response is opened, or refused
stream_server_logs(u, sid) ==
    IF Access(u, sid) # None THEN Refused(Access(u, sid)[1])
    ELSE IF servers[sid].status.container_id = None
    THEN Refused(HTTPException(400, "No container found for server"))
    ELSE Refused(Response(200, "", TRUE, None))

\* POST /servers/{server_id}/health.  The module never imports datetime, so
\* datetime.utcnow() raises NameError once docker.health_check has returned:
\* the handler ends there, before update_server_status.
check_server_health(u, sid) ==
    IF Access(u, sid) # None THEN Refused(Access(u, sid)[1])
    ELSE IF servers[sid].status.container_id = None
    THEN Refused(Response(200, "No container found", FALSE, None))
    ELSE Refused(HTTPException(500, "Internal Server Error"))

\* POST /servers/{server_id}/elicit/respond
respond_to_elicitation(u, sid) ==
    IF Access(u, sid) # None THEN Refused(Access(u, sid)[1])
    ELSE Refused(Response(200, "Response submitted", TRUE, None))

----------------------------------------------------------------------------
\* Actions

AllIds == {ServerId(i) : i \in 1..MaxIds}

CreateRequests ==
    [name : ReqNames, port : ReqPorts, docker_image : ReqImages,
     description : {""}, transport : {SSE}, environment : {EmptyDict}]
    \cup [name : {BadName}, port : {None}, docker_image : Images,
          description : {""}, transport : {SSE}, environment : {EmptyDict}]
    \cup [name : {"b"}, port : {Some(BadPort)}, docker_image : Images,
          description : {""}, transport : {SSE}, environment : {EmptyDict}]

StatusFilters == {None, Some(RUNNING)}

Patches ==
    [description : {None} \cup {Some(d) : d \in Descriptions},
     environment : {None}]

\* The outcomes the environment can give a request in the current state: an
\* outcome is drawn only for a call the handler makes, and the runtime
\* creates a container only while the bound allows.
NoCall == [call |-> TRUE]
NoCreate == [rm |-> TRUE, call |-> FALSE]
NoStart == [call |-> FALSE, up |-> FALSE, reload |-> FALSE]
NoRefresh == CHOOSE o \in ProviderOutcomes : ~o.ok /\ ~o.raised

\* the request passes the lookup and the ownership check, on a server with
\* a container_id
Admitted(u, sid) == Access(u, sid) = None
HasContainer(sid) == servers[sid].status.container_id # None

CreateChoices(name) ==
    {o \in CreateOutcomes :
        /\ o.call => nextCid <= MaxCids
        /\ ~o.rm => _get_container(containers, container_name(name)) # None}

ProviderChoices(u) ==
    IF /\ u \in DOMAIN tokens
       /\ tokens[u].refresh_token # None
       /\ now >= tokens[u].expires_at - ExpiryBufferMinutes
    THEN ProviderOutcomes
    ELSE {NoRefresh}

DeleteChoices(u, sid) ==
    IF Admitted(u, sid) /\ HasContainer(sid) THEN CallOutcomes ELSE {NoCall}

StartChoices(u, sid) ==
    IF Admitted(u, sid) /\ can_start(servers[sid])
    THEN [provider : ProviderChoices(u),
          create : IF HasContainer(sid) THEN {NoCreate}
                   ELSE CreateChoices(servers[sid].config.name),
          start : StartOutcomes]
    ELSE {[provider |-> NoRefresh, create |-> NoCreate, start |-> NoStart]}

StopChoices(u, sid) ==
    IF Admitted(u, sid) /\ can_stop(servers[sid]) /\ HasContainer(sid)
    THEN CallOutcomes ELSE {NoCall}

RestartChoices(u, sid) ==
    IF Admitted(u, sid) /\ HasContainer(sid)
    THEN [provider : ProviderChoices(u), start : StartOutcomes]
    ELSE {[provider |-> NoRefresh, start |-> NoStart]}

StatusChoices(u, sid) ==
    IF Admitted(u, sid) /\ HasContainer(sid) THEN CallOutcomes ELSE {NoCall}

\* the request leaves the state its handler gives
Apply(r) ==
    /\ servers' = r.servers
    /\ containers' = r.containers
    /\ tokens' = r.tokens
    /\ nextCid' = IF ContainerId(nextCid) \in DOMAIN r.containers
                  THEN nextCid + 1 ELSE nextCid
    /\ UNCHANGED <<managerVars, requests>>

CreateServer(u, req) ==
    /\ nextId <= MaxIds
    /\ \E o \in CreateChoices(Lower(req.name)) :
          /\ Apply(create_server(u, req, o))
          /\ nextId' = IF register_server(servers, ServerId(nextId), req, u).ok
                       THEN nextId + 1 ELSE nextId
    /\ UNCHANGED now

ListServers(u, status) ==
    /\ Apply(list_servers(u, status))
    /\ UNCHANGED <<nextId, now>>

GetServer(u, sid) ==
    /\ Apply(get_server(u, sid))
    /\ UNCHANGED <<nextId, now>>

UpdateServer(u, sid, patch) ==
    /\ Apply(update_server(u, sid, patch))
    /\ UNCHANGED <<nextId, now>>

DeleteServer(u, sid) ==
    /\ \E o \in DeleteChoices(u, sid) : Apply(delete_server(u, sid, o))
    /\ UNCHANGED <<nextId, now>>

StartServer(u, sid) ==
    /\ \E o \in StartChoices(u, sid) : Apply(start_server(u, sid, o))
    /\ UNCHANGED <<nextId, now>>

StopServer(u, sid) ==
    /\ \E o \in StopChoices(u, sid) : Apply(stop_server(u, sid, o))
    /\ UNCHANGED <<nextId, now>>

RestartServer(u, sid) ==
    /\ \E o \in RestartChoices(u, sid) : Apply(restart_server(u, sid, o))
    /\ UNCHANGED <<nextId, now>>

GetServerStatus(u, sid) ==
    /\ \E o \in StatusChoices(u, sid) : Apply(get_server_status(u, sid, o))
    /\ UNCHANGED <<nextId, now>>

StreamServerLogs(u, sid) ==
    /\ Apply(stream_server_logs(u, sid))
    /\ UNCHANGED <<nextId, now>>

CheckServerHealth(u, sid) ==
    /\ Apply(check_server_health(u, sid))
    /\ UNCHANGED <<nextId, now>>

RespondToElicitation(u, sid) ==
    /\ Apply(respond_to_elicitation(u, sid))
    /\ UNCHANGED <<nextId, now>>

\* AuthManager.sign_in: the identity provider accepts the credentials and
\* issues an access token of lifetime life with a refresh token
SignIn(u, life) ==
    /\ u \in DOMAIN tokens \/ Cardinality(DOMAIN tokens) < MaxTokens
    /\ tokens' = With(tokens, u, AuthToken(u, now + life, Some("rt")))
    /\ UNCHANGED <<servers, nextId, containers, nextCid, now>>
    /\ UNCHANGED <<managerVars, requests>>

\* the environment: the process of a running container ends
RuntimeExit(c) ==
    /\ containers[c].state = "running"
    /\ containers' = [containers EXCEPT ![c].state = "exited"]
    /\ UNCHANGED <<servers, nextId, nextCid, tokens, now>>
    /\ UNCHANGED <<managerVars, requests>>

Init ==
    /\ servers = <<>>
    /\ nextId = 1
    /\ containers = <<>>
    /\ nextCid = 1
    /\ tokens = <<>>
    /\ now = 0
    /\ zone = 0
    /\ refresh_tasks = <<>>
    /\ tasks = <<>>
    /\ calls = <<>>
    /\ requests = <<>>

\* the requests on one server
PerServer ==
    \/ \E u \in Users, sid \in AllIds : GetServer(u, sid)
    \/ \E u \in Users, sid \in AllIds, patch \in Patches :
          UpdateServer(u, sid, patch)
    \/ \E u \in Users, sid \in AllIds : DeleteServer(u, sid)
    \/ \E u \in Users, sid \in AllIds : StartServer(u, sid)
    \/ \E u \in Users, sid \in AllIds : StopServer(u, sid)
    \/ \E u \in Users, sid \in AllIds : RestartServer(u, sid)
    \/ \E u \in Users, sid \in AllIds : GetServerStatus(u, sid)
    \/ \E u \in Users, sid \in AllIds : StreamServerLogs(u, sid)
    \/ \E u \in Users, sid \in AllIds : CheckServerHealth(u, sid)
    \/ \E u \in Users, sid \in AllIds : RespondToElicitation(u, sid)

Environment ==
    \/ \E u \in Users, life \in Lifetimes : SignIn(u, life)
    \/ \E c \in DOMAIN containers : RuntimeExit(c)

Next ==
    \/ \E u \in Registrants, req \in CreateRequests : CreateServer(u, req)
    \/ \E u \in Users, status \in StatusFilters : ListServers(u, status)
    \/ PerServer
    \/ Environment

Spec == Init /\ [][Next]_vars

\* the system whose create requests all omit the port
OmitRequests == {req \in CreateRequests : req.port = None}

NextOmit ==
    \/ \E u \in Registrants, req \in OmitRequests : CreateServer(u, req)
    \/ \E u \in Users, status \in StatusFilters : ListServers(u, status)
    \/ PerServer
    \/ Environment

SpecOmit == Init /\ [][NextOmit]_vars

\* the system whose runtime moves its containers through every state word
\* it has, by its restart policy or at the hands of its operator
ContainerStates ==
    {"created", "running", "paused", "restarting", "removing", "exited",
     "dead"}

RuntimeMoves(c, word) ==
    /\ containers[c].state # word
    /\ containers' = [containers EXCEPT ![c].state = word]
    /\ UNCHANGED <<servers, nextId, nextCid, tokens, now>>
    /\ UNCHANGED <<managerVars, requests>>

NextRuntime ==
    \/ \E u \in Registrants, req \in OmitRequests : CreateServer(u, req)
    \/ \E u \in Users, sid \in AllIds : DeleteServer(u, sid)
    \/ \E u \in Users, sid \in AllIds : GetServerStatus(u, sid)
    \/ \E c \in DOMAIN containers, word \in ContainerStates :
          RuntimeMoves(c, word)

SpecRuntime == Init /\ [][NextRuntime]_vars

\* the system whose create and update requests carry environments, some of
\* them with the keys the Supervisor sets
Environments ==
    {EmptyDict,
     [LOG_LEVEL |-> "debug"],
     [MCP_SERVER_NAME |-> "z", MCP_SERVER_ID |-> "s9",
      MCP_TRANSPORT |-> "http", MCP_PORT |-> "1"]}

EnvRequests ==
    [name : {"a", "b"}, port : {None}, docker_image : Images,
     description : {""}, transport : {SSE}, environment : Environments]

EnvPatches ==
    [description : {None},
     environment : {None} \cup {Some(e) : e \in Environments}]

NextEnvironment ==
    \/ \E u \in Registrants, req \in EnvRequests : CreateServer(u, req)
    \/ \E u \in Users, sid \in AllIds, patch \in EnvPatches :
          UpdateServer(u, sid, patch)
    \/ \E u \in Users, sid \in AllIds : DeleteServer(u, sid)
    \/ \E u \in Users, sid \in AllIds : StartServer(u, sid)
    \/ \E u \in Users, sid \in AllIds : StopServer(u, sid)
    \/ \E u \in Users, life \in Lifetimes : SignIn(u, life)

SpecEnvironment == Init /\ [][NextEnvironment]_vars

----------------------------------------------------------------------------
\* The Auth Token Manager with its refresh tasks.  A call of the manager runs
\* from one await to the next in one step; a call that awaits the identity
\* provider, or close awaiting its tasks, stays in calls until it is answered,
\* and the refresh tasks take their steps in between.

\* a call awaiting: op the method, current the token refresh_token read
\* before its POST, gather the tasks close waits for
Call(op, user_id, current, gather) ==
    [op |-> op, user_id |-> user_id, current |-> current, gather |-> gather]

\* the system whose callers make one call at a time
Sequential == {1}

Idle(k) == k \notin DOMAIN calls

\* the answers of the identity provider to a sign-in
SignInAnswers ==
    {a \in [accepted : Booleans, life : Lifetimes,
            refresh : {None, Some("rt")}] :
        ~a.accepted => (a.refresh = None /\ \A l \in Lifetimes : a.life <= l)}

\* sign_in up to its POST
SignInCall(k, u) ==
    /\ Idle(k)
    /\ Len(tasks) + Cardinality({j \in DOMAIN calls :
                                    calls[j].op = "sign_in"}) < MaxTasks
    /\ calls' = With(calls, k, Call("sign_in", u, None, {}))
    /\ UNCHANGED <<controlVars, tokens, now, zone, refresh_tasks, tasks>>

\* sign_in from the answer on: ValueError, or the token is cached and the
\* refresh task started
SignInAnswered(k, a) ==
    /\ ~Idle(k) /\ calls[k].op = "sign_in"
    /\ calls' = Without(calls, k)
    /\ IF a.accepted
       THEN LET r == sign_in(tokens, refresh_tasks, tasks, calls[k].user_id,
                             now, a.life, a.refresh)
            IN  /\ tokens' = r.tokens
                /\ refresh_tasks' = r.refresh_tasks
                /\ tasks' = r.tasks
       ELSE UNCHANGED <<tokens, refresh_tasks, tasks>>
    /\ UNCHANGED <<controlVars, now, zone>>

SignOut(k, u) ==
    /\ Idle(k)
    /\ LET r == sign_out(tokens, refresh_tasks, tasks, u)
       IN  /\ tokens' = r.tokens
           /\ refresh_tasks' = r.refresh_tasks
           /\ tasks' = r.tasks
    /\ UNCHANGED <<controlVars, now, zone, calls>>

\* get_token up to its return or to the POST of its inline refresh
GetToken(k, u) ==
    /\ Idle(k)
    /\ calls' = IF u \in DOMAIN tokens /\ due(tokens, u, now)
                   /\ can_refresh(tokens, u)
                THEN With(calls, k, Call("get", u, Some(tokens[u]), {}))
                ELSE calls
    /\ UNCHANGED <<controlVars, tokens, now, zone, refresh_tasks, tasks>>

\* refresh_token, called from outside, up to its return or to its POST
RefreshToken(k, u) ==
    /\ Idle(k)
    /\ calls' = IF can_refresh(tokens, u)
                THEN With(calls, k, Call("refresh", u, Some(tokens[u]), {}))
                ELSE calls
    /\ UNCHANGED <<controlVars, tokens, now, zone, refresh_tasks, tasks>>

\* the POST of a get_token or refresh_token call is answered
ProviderAnswered(k, o) ==
    /\ ~Idle(k) /\ calls[k].op \in {"get", "refresh"}
    /\ tokens' = refresh_answered(tokens, calls[k].user_id,
                                  calls[k].current[1], now, o).tokens
    /\ calls' = Without(calls, k)
    /\ UNCHANGED <<controlVars, now, zone, refresh_tasks, tasks>>

\* close up to its gather, or to its end when there is no task
Close(k) ==
    /\ Idle(k)
    /\ tasks' = close_cancel(refresh_tasks, tasks)
    /\ IF refresh_tasks = <<>>
       THEN tokens' = <<>> /\ UNCHANGED <<refresh_tasks, calls>>
       ELSE /\ calls' = With(calls, k,
                             Call("close", "", None,
                                  {refresh_tasks[u] : u \in DOMAIN refresh_tasks}))
            /\ UNCHANGED <<tokens, refresh_tasks>>
    /\ UNCHANGED <<controlVars, now, zone>>

\* close from the end of its gather on
Closed(k) ==
    /\ ~Idle(k) /\ calls[k].op = "close"
    /\ \A i \in calls[k].gather : Terminated(tasks[i])
    /\ refresh_tasks' = <<>>
    /\ tokens' = <<>>
    /\ calls' = Without(calls, k)
    /\ UNCHANGED <<controlVars, now, zone, tasks>>

\* a task the event loop can resume with its next line
Running(i) == ~Terminated(tasks[i]) /\ ~tasks[i].must_cancel

\* a new task runs _refresh_loop to its first await
TaskRuns(i) ==
    /\ Running(i) /\ tasks[i].pc = "created"
    /\ tasks' = [tasks EXCEPT ![i] = loop_head(tokens, tasks[i].user_id, now)]
    /\ UNCHANGED <<controlVars, tokens, now, zone, refresh_tasks, calls>>

\* asyncio.sleep returns: the task calls refresh_token
TaskWakes(i) ==
    /\ Running(i) /\ tasks[i].pc = "sleep" /\ now >= tasks[i].wake
    /\ tasks' = [tasks EXCEPT ![i] = loop_refresh(tokens, tasks[i].user_id)]
    /\ UNCHANGED <<controlVars, tokens, now, zone, refresh_tasks, calls>>

\* the POST of the task's refresh_token is answered: the loop breaks, or
\* runs to its next await
TaskAnswered(i, o) ==
    /\ Running(i) /\ tasks[i].pc = "post"
    /\ LET r == refresh_answered(tokens, tasks[i].user_id,
                                 tasks[i].current[1], now, o)
       IN  /\ tokens' = r.tokens
           /\ tasks' = [tasks EXCEPT ![i] =
                           IF r.token = None
                           THEN Task(tasks[i].user_id, "done", 0, None)
                           ELSE loop_head(r.tokens, tasks[i].user_id, now)]
    /\ UNCHANGED <<controlVars, now, zone, refresh_tasks, calls>>

\* the CancelledError reaches the task at its await
TaskCancelled(i) ==
    /\ ~Terminated(tasks[i]) /\ tasks[i].must_cancel
    /\ tasks' = [tasks EXCEPT ![i] =
                    Task(tasks[i].user_id, "cancelled", 0, None)]
    /\ UNCHANGED <<controlVars, tokens, now, zone, refresh_tasks, calls>>

\* time passes: the clock is observed every five minutes
Tick ==
    /\ now + ExpiryBufferMinutes <= MaxTime
    /\ now' = now + ExpiryBufferMinutes
    /\ UNCHANGED <<controlVars, tokens, zone, refresh_tasks, tasks, calls>>

\* the manager after construction, on a host of any zone
InitManager ==
    /\ servers = <<>>
    /\ nextId = 1
    /\ containers = <<>>
    /\ nextCid = 1
    /\ tokens = <<>>
    /\ now = 0
    /\ zone \in Zones
    /\ refresh_tasks = <<>>
    /\ tasks = <<>>
    /\ calls = <<>>
    /\ requests = <<>>

TaskSteps ==
    \/ \E i \in DOMAIN tasks : TaskRuns(i)
    \/ \E i \in DOMAIN tasks : TaskWakes(i)
    \/ \E i \in DOMAIN tasks, o \in ProviderOutcomes : TaskAnswered(i, o)
    \/ \E i \in DOMAIN tasks : TaskCancelled(i)

NextManager ==
    \/ \E k \in Sequential, u \in Users : SignInCall(k, u)
    \/ \E k \in Sequential, a \in SignInAnswers : SignInAnswered(k, a)
    \/ \E k \in Sequential, u \in Users : SignOut(k, u)
    \/ \E k \in Sequential, u \in Users : GetToken(k, u)
    \/ \E k \in Sequential, u \in Users : RefreshToken(k, u)
    \/ \E k \in Sequential, o \in ProviderOutcomes : ProviderAnswered(k, o)
    \/ \E k \in Sequential : Close(k)
    \/ \E k \in Sequential : Closed(k)
    \/ TaskSteps
    \/ Tick

SpecManager == InitManager /\ [][NextManager]_vars

\* The manager on an event loop that keeps running: a task whose cancel()
\* was called is resumed with its CancelledError at the loop's next turn
SpecManagerFair ==
    SpecManager /\ WF_vars(\E i \in DOMAIN tasks : TaskCancelled(i))

\* The manager when every token the provider issues lives longer than the
\* lead of the refresh task, every sign-in and every refresh succeeds, and
\* the event loop and the provider are prompt: no time passes while a task
\* can run or a POST is unanswered, and no sleeping task oversleeps.
LongLifetimes == {l \in Lifetimes : l > RefreshLeadMinutes}

GoodAnswers == {o \in ProviderOutcomes : o.ok /\ o.life \in LongLifetimes}

GoodSignIns ==
    {a \in SignInAnswers :
        a.accepted /\ a.refresh # None /\ a.life \in LongLifetimes}

Prompt ==
    /\ calls = <<>>
    /\ \A i \in DOMAIN tasks :
          \/ Terminated(tasks[i])
          \/ /\ tasks[i].pc = "sleep"
             /\ ~tasks[i].must_cancel
             /\ tasks[i].wake >= now + ExpiryBufferMinutes

TickPrompt == Prompt /\ Tick

NextProactive ==
    \/ \E k \in Sequential, u \in Users : SignInCall(k, u)
    \/ \E k \in Sequential, a \in GoodSignIns : SignInAnswered(k, a)
    \/ \E k \in Sequential, u \in Users : GetToken(k, u)
    \/ \E k \in Sequential, o \in GoodAnswers : ProviderAnswered(k, o)
    \/ \E i \in DOMAIN tasks : TaskRuns(i)
    \/ \E i \in DOMAIN tasks : TaskWakes(i)
    \/ \E i \in DOMAIN tasks, o \in GoodAnswers : TaskAnswered(i, o)
    \/ \E i \in DOMAIN tasks : TaskCancelled(i)
    \/ TickPrompt

SpecProactive == InitManager /\ [][NextProactive]_vars

\* The manager with two callers: a call can arrive while another awaits the
\* identity provider
Concurrent == {1, 2}

NextConcurrent ==
    \/ \E k \in Concurrent, u \in Registrants : SignInCall(k, u)
    \/ \E k \in Concurrent, a \in SignInAnswers : SignInAnswered(k, a)
    \/ \E k \in Concurrent, u \in Registrants : SignOut(k, u)
    \/ \E k \in Concurrent, u \in Registrants : GetToken(k, u)
    \/ \E k \in Concurrent, o \in ProviderOutcomes : ProviderAnswered(k, o)
    \/ TaskSteps
    \/ Tick

SpecConcurrent == InitManager /\ [][NextConcurrent]_vars

----------------------------------------------------------------------------
\* The Controller with overlapping start and stop requests.  A request runs
\* from one await that touches the Registry or the runtime to the next in one
\* step, and the other requests take their steps in between.  No user is
\* signed in, so the get_token of a start returns None and changes nothing.

\* a request: server is the record it read at its first line, with the
\* container_id start_server assigns to it; status what the Supervisor
\* returned; during the requests on the same server that were in progress
\* when it arrived.  pc: "create", "start", "stop" (its next runtime call),
\* "persist" (its update_server_status), "done"
Request(op, u, server, pc, during) ==
    [op |-> op, user_id |-> u, server |-> server, pc |-> pc, status |-> None,
     during |-> during]

InProgress(sid) ==
    {j \in DOMAIN requests :
        requests[j].server.id = sid /\ requests[j].pc # "done"}

\* start_server up to its first runtime call, for a request that passes the
\* lookup, the ownership check and can_start
StartReads(u, sid) ==
    /\ Len(requests) < MaxRequests
    /\ sid \in DOMAIN servers
    /\ Admitted(u, sid) /\ can_start(servers[sid])
    /\ requests' = Append(requests,
                          Request("start", u, servers[sid],
                                  IF HasContainer(sid) THEN "start"
                                  ELSE "create",
                                  InProgress(sid)))
    /\ UNCHANGED <<servers, nextId, containers, nextCid, tokens, now,
                   managerVars>>

\* start_server at create_container: 500, or the container_id is assigned to
\* the request's copy of the record
StartCreates(k, o) ==
    /\ requests[k].pc = "create"
    /\ LET server == requests[k].server
           made == create_container(containers, ContainerId(nextCid),
                                    server.id, server.config, o)
       IN  /\ containers' = made.ctrs
           /\ nextCid' = IF ContainerId(nextCid) \in DOMAIN made.ctrs
                         THEN nextCid + 1 ELSE nextCid
           /\ requests' =
                 [requests EXCEPT ![k] =
                     IF made.status.status = ERROR
                     THEN [@ EXCEPT !.pc = "done"]
                     ELSE [@ EXCEPT !.pc = "start",
                                    !.server.status.container_id =
                                        Some(made.container_id)]]
    /\ UNCHANGED <<servers, nextId, tokens, now, managerVars>>

\* start_server at start_container
StartStarts(k, o) ==
    /\ requests[k].pc = "start"
    /\ LET started == start_container(
                          containers,
                          requests[k].server.status.container_id[1], now, o)
       IN  /\ containers' = started.ctrs
           /\ requests' = [requests EXCEPT ![k].pc = "persist",
                                           ![k].status = Some(started.status)]
    /\ UNCHANGED <<servers, nextId, nextCid, tokens, now, managerVars>>

\* stop_server up to its runtime call, for a request that passes the lookup,
\* the ownership check, can_stop and the container_id check
StopReads(u, sid) ==
    /\ Len(requests) < MaxRequests
    /\ sid \in DOMAIN servers
    /\ Admitted(u, sid) /\ can_stop(servers[sid]) /\ HasContainer(sid)
    /\ requests' = Append(requests,
                          Request("stop", u, servers[sid], "stop",
                                  InProgress(sid)))
    /\ UNCHANGED <<servers, nextId, containers, nextCid, tokens, now,
                   managerVars>>

\* stop_server at stop_container
StopStops(k, o) ==
    /\ requests[k].pc = "stop"
    /\ LET stopped == stop_container(
                          containers,
                          requests[k].server.status.container_id[1], now, o)
       IN  /\ containers' = stopped.ctrs
           /\ requests' = [requests EXCEPT ![k].pc = "persist",
                                           ![k].status = Some(stopped.status)]
    /\ UNCHANGED <<servers, nextId, nextCid, tokens, now, managerVars>>

\* start_server and stop_server at update_server_status, to their response
Persists(k) ==
    /\ requests[k].pc = "persist"
    /\ servers' = registry_update_server_status(servers,
                                                requests[k].server.id,
                                                requests[k].status[1])
    /\ requests' = [requests EXCEPT ![k].pc = "done"]
    /\ UNCHANGED <<nextId, containers, nextCid, tokens, now, managerVars>>

\* the create requests of this system: one server
OverlapRequests ==
    {req \in CreateRequests :
        req.name = "a" /\ req.port = None /\ req.docker_image \in Images}

NextOverlap ==
    \/ \E u \in Registrants, req \in OverlapRequests : CreateServer(u, req)
    \/ \E u \in Registrants, sid \in AllIds : StartReads(u, sid)
    \/ \E k \in DOMAIN requests, o \in CreateOutcomes : StartCreates(k, o)
    \/ \E k \in DOMAIN requests, o \in StartOutcomes : StartStarts(k, o)
    \/ \E u \in Registrants, sid \in AllIds : StopReads(u, sid)
    \/ \E k \in DOMAIN requests, o \in CallOutcomes : StopStops(k, o)
    \/ \E k \in DOMAIN requests : Persists(k)

SpecOverlap == Init /\ [][NextOverlap]_vars

----------------------------------------------------------------------------
\* The request-serving scheduler: one event loop thread runs every handler,
\* one step at a time.  A step that awaits (run_in_executor, the Registry)
\* gives the thread back until it is answered; a step that calls the runtime
\* without await keeps the thread until the runtime answers.

\* the async generator of stream_container_logs under log_generator.  pc:
\* "open" (the StreamingResponse is returned, the generator not yet run),
\* "next" (inside `for line in logs`, in the next() of the runtime's log
\* stream), "yield" (suspended at its yield, a line handed over), "done"
LogStream(u, server, follow, pc) ==
    [op |-> "logs", user_id |-> u, server |-> server, pc |-> pc,
     status |-> None, during |-> {}, follow |-> follow]

\* the event loop thread is inside a call of request c that does not await
Blocking(c) == c.op = "logs" /\ c.pc = "next"

LoopFree == \A k \in DOMAIN requests : ~Blocking(requests[k])

\* stream_server_logs up to its return of the StreamingResponse
LogsOpens(u, sid, follow) ==
    /\ LoopFree
    /\ Len(requests) < MaxRequests
    /\ Cardinality({k \in DOMAIN requests : requests[k].op = "logs"})
          < MaxStreams
    /\ sid \in DOMAIN servers
    /\ stream_server_logs(u, sid).response.code = 200
    /\ requests' = Append(requests, LogStream(u, servers[sid], follow, "open"))
    /\ UNCHANGED <<servers, nextId, containers, nextCid, tokens, now,
                   managerVars>>

\* stream_container_logs from its first line to the first next() of
\* `for line in logs`: one message and the end when the container is not
\* found
LogsIterates(k) ==
    /\ LoopFree
    /\ requests[k].op = "logs" /\ requests[k].pc = "open"
    /\ requests' =
          [requests EXCEPT ![k].pc =
              IF _get_container(containers,
                                requests[k].server.status.container_id[1])
                     = None
              THEN "done" ELSE "next"]
    /\ UNCHANGED <<servers, nextId, containers, nextCid, tokens, now,
                   managerVars>>

\* the runtime hands the stream its next line: next() returns and the
\* generator yields the line
RuntimeLine(k) ==
    /\ requests[k].op = "logs" /\ requests[k].pc = "next"
    /\ requests[k].server.status.container_id[1] \in DOMAIN containers
    /\ requests' = [requests EXCEPT ![k].pc = "yield"]
    /\ UNCHANGED <<servers, nextId, containers, nextCid, tokens, now,
                   managerVars>>

\* the runtime ends the stream: it was not asked to follow, or the container
\* is not running any more
RuntimeCloses(k) ==
    /\ requests[k].op = "logs" /\ requests[k].pc = "next"
    /\ LET key == requests[k].server.status.container_id[1]
       IN  \/ ~requests[k].follow
           \/ key \notin DOMAIN containers
           \/ key \in DOMAIN containers /\ containers[key].state # "running"
    /\ requests' = [requests EXCEPT ![k].pc = "done"]
    /\ UNCHANGED <<servers, nextId, containers, nextCid, tokens, now,
                   managerVars>>

\* the response has sent the line and resumes the generator, which goes
\* round its loop to the next next()
LogsResumes(k) ==
    /\ LoopFree
    /\ requests[k].op = "logs" /\ requests[k].pc = "yield"
    /\ requests' = [requests EXCEPT ![k].pc = "next"]
    /\ UNCHANGED <<servers, nextId, containers, nextCid, tokens, now,
                   managerVars>>

\* the next step of request k, which the event loop thread runs
Runs(k) ==
    \/ LoopFree /\ Persists(k)
    \/ LogsIterates(k)
    \/ LogsResumes(k)

NextScheduler ==
    \/ \E u \in Registrants, req \in OverlapRequests :
          LoopFree /\ CreateServer(u, req)
    \/ \E u \in Registrants, sid \in AllIds : LoopFree /\ StartServer(u, sid)
    \/ \E u \in Registrants, sid \in AllIds : LoopFree /\ StopReads(u, sid)
    \/ \E k \in DOMAIN requests, o \in CallOutcomes : StopStops(k, o)
    \/ \E u \in Registrants, sid \in AllIds, follow \in Booleans :
          LogsOpens(u, sid, follow)
    \/ \E k \in DOMAIN requests : LoopFree /\ Persists(k)
    \/ \E k \in DOMAIN requests : LogsIterates(k)
    \/ \E k \in DOMAIN requests : LogsResumes(k)
    \/ \E k \in DOMAIN requests : RuntimeLine(k)
    \/ \E k \in DOMAIN requests : RuntimeCloses(k)
    \/ \E c \in DOMAIN containers : RuntimeExit(c)

SpecScheduler == Init /\ [][NextScheduler]_vars

----------------------------------------------------------------------------
\* The Controller with overlapping create and update requests.  A request
\* runs from one await on the Registry or the runtime to the next in one step.

\* a create request in progress: omitted says that the client gave no port,
\* used the ports _get_next_available_port read, req the request with the
\* port register_server assigned to it, server the record it inserted.
\* pc: "insert", "container", "persist", "cleanup", "done"
Creating(u, req, used) ==
    [op |-> "create", user_id |-> u, omitted |-> req.port = None,
     used |-> used, req |-> req, server |-> None, status |-> None,
     pc |-> "insert", code |-> 0]

\* an update request in progress: server is the record update_server read.
\* pc: "read", "write", "done"
Updating(u, sid, patch) ==
    [op |-> "update", user_id |-> u, id |-> sid, patch |-> patch,
     server |-> None, pc |-> "read", code |-> 0]

\* register_server up to its INSERT: the request with no port gets the one
\* _get_next_available_port finds in the rows it fetches
CreateArrives(u, req) ==
    /\ Len(requests) < MaxRequests
    /\ requests' =
          Append(requests,
                 IF req.port = None
                 THEN [Creating(u,
                                [req EXCEPT !.port = Some(
                                    _get_next_available_port(servers,
                                                             StartPort))],
                                UsedPorts(servers))
                       EXCEPT !.omitted = TRUE]
                 ELSE Creating(u, req, {}))
    /\ UNCHANGED <<servers, nextId, containers, nextCid, tokens, now,
                   managerVars>>

\* register_server at its INSERT
CreateInserts(k) ==
    /\ requests[k].op = "create" /\ requests[k].pc = "insert"
    /\ nextId <= MaxIds
    /\ LET id == ServerId(nextId)
           reg == register_server(servers, id, requests[k].req,
                                  requests[k].user_id)
       IN  /\ servers' = reg.servers
           /\ nextId' = IF reg.ok THEN nextId + 1 ELSE nextId
           /\ requests' =
                 [requests EXCEPT ![k] =
                     IF reg.ok
                     THEN [@ EXCEPT !.pc = "container",
                                    !.server = Some(reg.servers[id])]
                     ELSE [@ EXCEPT !.pc = "done", !.code = 400]]
    /\ UNCHANGED <<containers, nextCid, tokens, now, managerVars>>

\* create_server at create_container
CreateCreates(k, o) ==
    /\ requests[k].op = "create" /\ requests[k].pc = "container"
    /\ o.call => nextCid <= MaxCids
    /\ LET server == requests[k].server[1]
           made == create_container(containers, ContainerId(nextCid),
                                    server.id, server.config, o)
       IN  /\ containers' = made.ctrs
           /\ nextCid' = IF ContainerId(nextCid) \in DOMAIN made.ctrs
                         THEN nextCid + 1 ELSE nextCid
           /\ requests' =
                 [requests EXCEPT ![k] =
                     IF made.status.status = ERROR
                     THEN [@ EXCEPT !.pc = "cleanup"]
                     ELSE [@ EXCEPT !.pc = "persist",
                                    !.status = Some(
                                        [made.status EXCEPT
                                            !.server_id = server.id])]]
    /\ UNCHANGED <<servers, nextId, tokens, now, managerVars>>

\* create_server at update_server_status, or at delete_server when the
\* container was not created, to its response
CreateFinishes(k) ==
    /\ requests[k].op = "create"
    /\ requests[k].pc \in {"persist", "cleanup"}
    /\ LET id == requests[k].server[1].id
       IN  servers' =
              IF requests[k].pc = "persist"
              THEN registry_update_server_status(servers, id,
                                                 requests[k].status[1])
              ELSE registry_delete_server(servers, id)
    /\ requests' = [requests EXCEPT
                      ![k].pc = "done",
                      ![k].code = IF requests[k].pc = "persist" THEN 200
                                  ELSE 500]
    /\ UNCHANGED <<nextId, containers, nextCid, tokens, now, managerVars>>

\* update_server of the Controller up to registry.update_server, for a
\* request that passes the lookup and the ownership check
UpdateArrives(u, sid, patch) ==
    /\ Len(requests) < MaxRequests
    /\ sid \in DOMAIN servers
    /\ Admitted(u, sid)
    /\ requests' = Append(requests, Updating(u, sid, patch))
    /\ UNCHANGED <<servers, nextId, containers, nextCid, tokens, now,
                   managerVars>>

\* update_server of the Registry at its get_server
UpdateReads(k) ==
    /\ requests[k].op = "update" /\ requests[k].pc = "read"
    /\ requests' =
          [requests EXCEPT ![k] =
              IF requests[k].id \in DOMAIN servers
              THEN [@ EXCEPT !.pc = "write",
                             !.server = Some(servers[requests[k].id])]
              ELSE [@ EXCEPT !.pc = "done", !.code = 500]]
    /\ UNCHANGED <<servers, nextId, containers, nextCid, tokens, now,
                   managerVars>>

\* update_server of the Registry from its setattr loop to its response:
\* UPDATE mcp_servers SET config = <the config it read, patched>
UpdateWrites(k) ==
    /\ requests[k].op = "update" /\ requests[k].pc = "write"
    /\ LET id == requests[k].id
           read == With(<<>>, id, requests[k].server[1])
           patched == registry_update_server(read, id, requests[k].patch)
       IN  /\ servers' = IF id \in DOMAIN servers
                         THEN [servers EXCEPT ![id].config =
                                                  patched[id].config]
                         ELSE servers
           /\ requests' = [requests EXCEPT
                             ![k].pc = "done",
                             ![k].code = IF id \in DOMAIN servers THEN 200
                                         ELSE 500]
    /\ UNCHANGED <<nextId, containers, nextCid, tokens, now, managerVars>>

\* the create requests and the patches of this system
RegistryRequests ==
    [name : {"a", "b"}, port : ReqPorts, docker_image : Images,
     description : {""}, transport : {SSE}, environment : {EmptyDict}]

RegistryPatches ==
    {[description |-> Some("d"), environment |-> None],
     [description |-> None, environment |-> Some([LOG_LEVEL |-> "debug"])]}

NextRegistry ==
    \/ \E u \in Registrants, req \in RegistryRequests : CreateArrives(u, req)
    \/ \E k \in DOMAIN requests : CreateInserts(k)
    \/ \E k \in DOMAIN requests, o \in CreateOutcomes : CreateCreates(k, o)
    \/ \E k \in DOMAIN requests : CreateFinishes(k)
    \/ \E u \in Registrants, sid \in AllIds, patch \in RegistryPatches :
          UpdateArrives(u, sid, patch)
    \/ \E k \in DOMAIN requests : UpdateReads(k)
    \/ \E k \in DOMAIN requests : UpdateWrites(k)

SpecRegistry == Init /\ [][NextRegistry]_vars

----------------------------------------------------------------------------
\* The request-at-a-time system on a runtime that keeps its host ports.
\* create_container publishes the container's port config.port on the host
\* port config.port (ports={f"{config.port}/tcp": config.port}); the runtime
\* binds a host port when a container starts, and raises from start() and
\* restart() for a container whose host port another running container holds.

\* the host port of server sid is held by the running container of another
\* record
Published(sid) ==
    \E c \in DOMAIN containers :
        /\ containers[c].state = "running"
        /\ containers[c].server_id # sid
        /\ containers[c].server_id \in DOMAIN servers
        /\ servers[containers[c].server_id].config.port =
               servers[sid].config.port

\* the outcomes this runtime can give the start and the restart of sid
BindingChoices(u, sid, choices) ==
    {o \in choices :
        (Admitted(u, sid) /\ Published(sid)) => ~o.start.call}

StartServerBinding(u, sid) ==
    /\ \E o \in BindingChoices(u, sid, StartChoices(u, sid)) :
          Apply(start_server(u, sid, o))
    /\ UNCHANGED <<nextId, now>>

RestartServerBinding(u, sid) ==
    /\ \E o \in BindingChoices(u, sid, RestartChoices(u, sid)) :
          Apply(restart_server(u, sid, o))
    /\ UNCHANGED <<nextId, now>>

\* the create requests of this system
BindingRequests ==
    {req \in CreateRequests :
        req.name \in {"a", "b"} /\ req.docker_image \in Images}

NextBinding ==
    \/ \E u \in Registrants, req \in BindingRequests : CreateServer(u, req)
    \/ \E u \in Registrants, sid \in AllIds : StartServerBinding(u, sid)
    \/ \E u \in Registrants, sid \in AllIds : StopServer(u, sid)
    \/ \E u \in Registrants, sid \in AllIds : RestartServerBinding(u, sid)
    \/ \E u \in Registrants, sid \in AllIds : GetServerStatus(u, sid)
    \/ \E u \in Registrants, sid \in AllIds : DeleteServer(u, sid)
    \/ \E c \in DOMAIN containers : RuntimeExit(c)

SpecBinding == Init /\ [][NextBinding]_vars

----------------------------------------------------------------------------
\* The lifecycle requests while time passes

ClockRequests ==
    {req \in OmitRequests : req.name \in {"a", "b"} /\ req.docker_image \in Images}

NextClock ==
    \/ \E u \in Registrants, req \in ClockRequests : CreateServer(u, req)
    \/ \E u \in Registrants, sid \in AllIds : StartServer(u, sid)
    \/ \E u \in Registrants, sid \in AllIds : StopServer(u, sid)
    \/ \E u \in Registrants, sid \in AllIds : RestartServer(u, sid)
    \/ \E u \in Registrants, sid \in AllIds : GetServerStatus(u, sid)
    \/ \E u \in Registrants, sid \in AllIds : CheckServerHealth(u, sid)
    \/ \E c \in DOMAIN containers : RuntimeExit(c)
    \/ Tick

SpecClock == Init /\ [][NextClock]_vars

----------------------------------------------------------------------------
\* Properties.  A property of a request quantifies over the requests and the
\* outcomes the request can meet in a reachable state, and reads what the
\* handler gives for them.

\* every outcome a start or a restart request can meet
AllStartOutcomes ==
    [provider : ProviderOutcomes, create : CreateOutcomes,
     start : StartOutcomes]
AllRestartOutcomes == [provider : ProviderOutcomes, start : StartOutcomes]

\* the request wrote nothing in the registry or the runtime
Untouched(r) == r.servers = servers /\ r.containers = containers

NamesUnique(reg) ==
    \A i, j \in DOMAIN reg : reg[i].config.name = reg[j].config.name => i = j

PortsUnique(reg) ==
    \A i, j \in DOMAIN reg : reg[i].config.port = reg[j].config.port => i = j

\* C1: a start request (past the lookup and the ownership check) on a server
\* whose persisted state is not stopped or error, and a stop request on a
\* server whose persisted state is not running or unhealthy, gets 400 and
\* leaves the registry and every container as they were.
C1_GatedRequestsRefused ==
    \A u \in Users, sid \in DOMAIN servers :
        Admitted(u, sid) =>
            /\ servers[sid].status.status \notin {STOPPED, ERROR} =>
                  \A o \in AllStartOutcomes :
                      LET r == start_server(u, sid, o)
                      IN  r.response.code = 400 /\ Untouched(r)
            /\ servers[sid].status.status \notin {RUNNING, UNHEALTHY} =>
                  \A o \in CallOutcomes :
                      LET r == stop_server(u, sid, o)
                      IN  r.response.code = 400 /\ Untouched(r)

\* a running server whose container is up gets a start request from its owner,
\* and a stopped server with a container gets a stop request
C1_Witness ==
    \E sid, sid2 \in DOMAIN servers :
        /\ servers[sid].status.status = RUNNING
        /\ HasContainer(sid)
        /\ containers[servers[sid].status.container_id[1]].state = "running"
        /\ \E o \in StartChoices(servers[sid].created_by, sid) :
              start_server(servers[sid].created_by, sid, o).response.code = 400
        /\ servers[sid2].status.status = STOPPED
        /\ HasContainer(sid2)
        /\ \E o \in CallOutcomes :
              stop_server(servers[sid2].created_by, sid2, o).response.code = 400

\* C2: no two records have the same config.name, and a create whose
\* lower-cased name is the name of a record fails with 400, as a name
\* conflict when the request is otherwise valid, and leaves the registry and
\* the containers as they were.
C2_NamesUnique ==
    /\ NamesUnique(servers)
    /\ \A u \in Users, req \in CreateRequests :
          NameTaken(servers, Lower(req.name)) =>
              \A o \in CreateOutcomes :
                  LET r == create_server(u, req, o)
                  IN  /\ r.response.code = 400
                      /\ Untouched(r)
                      /\ (req.port = None
                              \/ ConfigValid(req.name, req.port[1])) =>
                            r.response.detail =
                                "Server name '" \o req.name
                                    \o "' already exists"

\* two records exist, one of them named "a", and a create of "A" is refused
C2_Witness ==
    /\ Cardinality(DOMAIN servers) = 2
    /\ \E sid \in DOMAIN servers : servers[sid].config.name = "a"
    /\ \E o \in CreateOutcomes :
          create_server("u2", [name |-> "A", port |-> None,
                               docker_image |-> "img", description |-> "",
                               transport |-> SSE,
                               environment |-> EmptyDict],
                        o).response.code = 400

\* the Supervisor's create returns an Error status in a create request
CreateFails(u, req, o) ==
    LET reg == register_server(servers, ServerId(nextId), req, u)
    IN  /\ reg.ok
        /\ create_container(containers, ContainerId(nextCid),
                            ServerId(nextId),
                            reg.servers[ServerId(nextId)].config,
                            o).status.status = ERROR

\* C3: when the Supervisor's create returns an Error status in a create
\* request, the request leaves no record for the server it registered: the
\* registry is as it was before the request, the name and the port of the
\* request held by no record that did not hold them before.
C3_FailedCreateRolledBack ==
    \A u \in Users, req \in CreateRequests, o \in CreateOutcomes :
        CreateFails(u, req, o) =>
            LET r == create_server(u, req, o)
            IN  /\ ServerId(nextId) \notin DOMAIN r.servers
                /\ r.servers = servers

\* a create fails in the runtime while the registry holds another record
C3_Witness ==
    /\ servers # <<>>
    /\ \E u \in Registrants, req \in CreateRequests :
       \E o \in CreateChoices(Lower(req.name)) :
          /\ nextId <= MaxIds
          /\ req.docker_image \notin Images
          /\ CreateFails(u, req, o)

\* C4: when the Supervisor's create returns an Error status in a create
\* request, the client gets 500 with the error message of that status as
\* detail.
C4_FailedCreateDetail ==
    \A u \in Users, req \in CreateRequests, o \in CreateOutcomes :
        CreateFails(u, req, o) =>
            LET id == ServerId(nextId)
                made == create_container(
                            containers, ContainerId(nextCid), id,
                            register_server(servers, id, req, u)
                                .servers[id].config, o)
            IN  /\ create_server(u, req, o).response.code = 500
                /\ create_server(u, req, o).response.detail =
                       made.status.error_message[1]

\* the request changed nothing and was answered 403
Forbidden(r) ==
    /\ r.response.code = 403
    /\ Untouched(r)
    /\ r.tokens = tokens

\* C5: on every per-server endpoint a caller who is not created_by of the
\* record gets 403, and the registry, the runtime and the token cache are as
\* they were, whatever the runtime and the identity provider would answer.
C5_NonOwnerForbidden ==
    \A u \in Users, sid \in DOMAIN servers :
        servers[sid].created_by # u =>
            /\ Forbidden(get_server(u, sid))
            /\ \A patch \in Patches : Forbidden(update_server(u, sid, patch))
            /\ \A o \in CallOutcomes : Forbidden(delete_server(u, sid, o))
            /\ \A o \in AllStartOutcomes : Forbidden(start_server(u, sid, o))
            /\ \A o \in CallOutcomes : Forbidden(stop_server(u, sid, o))
            /\ \A o \in AllRestartOutcomes :
                   Forbidden(restart_server(u, sid, o))
            /\ \A o \in CallOutcomes : Forbidden(get_server_status(u, sid, o))
            /\ Forbidden(stream_server_logs(u, sid))
            /\ Forbidden(check_server_health(u, sid))
            /\ Forbidden(respond_to_elicitation(u, sid))

\* a caller whose cached token is due for a refresh asks for a server of
\* another user that is running in a container
C5_Witness ==
    \E u \in Users, sid \in DOMAIN servers :
        /\ servers[sid].created_by # u
        /\ servers[sid].status.status = RUNNING
        /\ HasContainer(sid)
        /\ ProviderChoices(u) = ProviderOutcomes
        /\ start_server(u, sid, CHOOSE o \in AllStartOutcomes : o.provider.ok)
               .response.code = 403

\* C6: after a delete request that answers 200 and whose runtime calls all
\* succeed, the registry holds no record with the id and the runtime holds no
\* container created for that server.
C6_DeleteLeavesNothing ==
    \A u \in Users, sid \in DOMAIN servers :
        LET r == delete_server(u, sid, [call |-> TRUE])
        IN  r.response.code = 200 =>
                /\ sid \notin DOMAIN r.servers
                /\ \A c \in DOMAIN r.containers :
                       r.containers[c].server_id # sid

\* C7: with create requests that all omit the port, no two records have the
\* same config.port, now and after one more such create.
C7_OmittedPortsUnique ==
    /\ PortsUnique(servers)
    /\ \A u \in Users, req \in OmitRequests, o \in CreateOutcomes :
          PortsUnique(create_server(u, req, o).servers)

\* a record has been deleted and the one left is not on the first port: the
\* next create that omits the port is stored next to it
C7_Witness ==
    /\ nextId > 2
    /\ Cardinality(DOMAIN servers) = 1
    /\ StartPort \notin UsedPorts(servers)
    /\ \E u \in Users, req \in OmitRequests, o \in CreateOutcomes :
          Cardinality(DOMAIN create_server(u, req, o).servers) = 2

\* C8: no two records have the same config.port.
C8_PortsUnique == PortsUnique(servers)

\* C9: a create that omits the port stores the smallest port p >= 8765 that
\* no record of the registry has.
C9_SmallestFreePort ==
    \A u \in Users, req \in OmitRequests, o \in CreateOutcomes :
        LET id == ServerId(nextId)
            r == create_server(u, req, o)
        IN  id \in DOMAIN r.servers =>
                LET p == r.servers[id].config.port
                IN  /\ p >= StartPort
                    /\ p \notin UsedPorts(servers)
                    /\ \A q \in StartPort..(p - 1) : q \in UsedPorts(servers)

\* the registry has a record on 8766 and none on 8765, and a create that
\* omits the port is stored
C9_Witness ==
    /\ StartPort + 1 \in UsedPorts(servers)
    /\ StartPort \notin UsedPorts(servers)
    /\ \E u \in Users, req \in OmitRequests :
       \E o \in CreateChoices(Lower(req.name)) :
          /\ ServerId(nextId) \in DOMAIN create_server(u, req, o).servers
          /\ create_server(u, req, o).servers[ServerId(nextId)].config.port
                 = StartPort

\* the transitions of the lifecycle
LegalTransition(from, to) ==
    \/ to = ERROR
    \/ <<from, to>> \in {<<STOPPED, STARTING>>, <<STARTING, RUNNING>>,
                         <<RUNNING, STOPPING>>, <<STOPPING, STOPPED>>,
                         <<RUNNING, UNHEALTHY>>, <<UNHEALTHY, RUNNING>>,
                         <<UNHEALTHY, STOPPING>>}

\* C10: every change of a record's persisted status.status is a legal
\* transition of the lifecycle.
C10_LegalTransitions ==
    [][\A sid \in DOMAIN servers \cap DOMAIN servers' :
          servers'[sid].status.status # servers[sid].status.status =>
              LegalTransition(servers[sid].status.status,
                              servers'[sid].status.status)]_vars

\* the containers of the runtime that are the container of server sid, by
\* their label and their name
ContainersOf(ctrs, sid, name) ==
    {c \in DOMAIN ctrs :
        ctrs[c].server_id = sid /\ ctrs[c].name = container_name(name)}

\* C11: a start request on a server in state stopped or error whose runtime
\* calls all succeed and whose container comes up running answers
\* success=true and leaves the persisted status running, with started_at set
\* and container_id the container that was started.
C11_StartedRunning ==
    \A u \in Users, sid \in DOMAIN servers :
        (Admitted(u, sid) /\ servers[sid].status.status \in {STOPPED, ERROR})
        => \A o \in StartChoices(u, sid) :
              LET r == start_server(u, sid, o)
                  status == r.servers[sid].status
              IN  (/\ o.start.call /\ o.start.up /\ o.start.reload
                   /\ r.response.code # 500)
                  => /\ r.response.code = 200
                     /\ r.response.success
                     /\ status.status = RUNNING
                     /\ status.started_at # None
                     /\ status.container_id # None
                     /\ status.container_id[1] \in
                            ContainersOf(r.containers, sid,
                                         servers[sid].config.name)
                     /\ r.containers[status.container_id[1]].state = "running"
                     /\ r.response.body = Some(r.servers[sid])

\* a server in state error whose record has lost its container is started:
\* the container is created again and comes up
C11_Witness ==
    \E sid \in DOMAIN servers :
        /\ servers[sid].status.status = ERROR
        /\ ~HasContainer(sid)
        /\ \E o \in StartChoices(servers[sid].created_by, sid) :
              /\ o.start.call /\ o.start.up /\ o.start.reload
              /\ start_server(servers[sid].created_by, sid, o).response.success

\* the runtime step of a start request fails with this reason
StartFails(sid, o, reason) ==
    LET server == servers[sid]
        fresh == server.status.container_id = None
        made == create_container(containers, ContainerId(nextCid), server.id,
                                 server.config, o.create)
        started == start_container(
                       IF fresh THEN made.ctrs ELSE containers,
                       IF fresh THEN made.container_id
                       ELSE server.status.container_id[1],
                       now, o.start)
    IN  IF fresh /\ made.status.status = ERROR
        THEN reason = made.status.error_message[1]
        ELSE /\ started.status.status = ERROR
             /\ reason = started.status.error_message[1]

\* the runtime step of a stop, of a restart request fails with this reason
StopFails(sid, o, reason) ==
    LET stopped == stop_container(containers,
                                  servers[sid].status.container_id[1], now, o)
    IN  stopped.status.status = ERROR
        /\ reason = stopped.status.error_message[1]

RestartFails(sid, o, reason) ==
    LET restarted == restart_container(
                         containers, servers[sid].status.container_id[1],
                         now, o.start)
    IN  restarted.status.status = ERROR
        /\ reason = restarted.status.error_message[1]

\* the body of a lifecycle action that failed for this reason
FailureBody(r, sid, verb, reason) ==
    /\ r.response.code = 200
    /\ ~r.response.success
    /\ r.response.detail = "Failed to " \o verb \o " server: " \o reason
    /\ r.response.body = Some(r.servers[sid])

\* the reasons a Supervisor operation of the model can give
Reasons ==
    {ApiError, "Container not found"}
    \cup {"Docker image not found: " \o i : i \in ReqImages}
    \cup {"Container failed to " \o v \o ": " \o w :
            v \in {"start", "restart"}, w \in {"created", "exited"}}

\* C12: when the runtime step of a start, stop or restart request fails
\* (container creation, start, stop or restart), the request returns a body
\* with success=false, the failure reason as message and the record as it is
\* persisted after the failure.
C12_FailureBody ==
    \A u \in Users, sid \in DOMAIN servers, reason \in Reasons :
        Admitted(u, sid) =>
            /\ can_start(servers[sid]) =>
                  \A o \in StartChoices(u, sid) :
                      StartFails(sid, o, reason) =>
                          FailureBody(start_server(u, sid, o), sid, "start",
                                      reason)
            /\ (can_stop(servers[sid]) /\ HasContainer(sid)) =>
                  \A o \in CallOutcomes :
                      StopFails(sid, o, reason) =>
                          FailureBody(stop_server(u, sid, o), sid, "stop",
                                      reason)
            /\ HasContainer(sid) =>
                  \A o \in RestartChoices(u, sid) :
                      RestartFails(sid, o, reason) =>
                          FailureBody(restart_server(u, sid, o), sid,
                                      "restart", reason)

\* C13: a status request on a server whose record has a container_id returns
\* what the Supervisor's inspect gives and has made the persisted status equal
\* to it (nothing else is written); when the record has no container_id, or
\* inspect gives nothing, it returns the persisted status and writes nothing.
C13_StatusWritesThrough ==
    \A u \in Users, sid \in DOMAIN servers, o \in CallOutcomes :
        Admitted(u, sid) =>
            LET r == get_server_status(u, sid, o)
                inspect == get_container_status(
                               containers, servers[sid].status.container_id[1],
                               now, o)
            IN  /\ r.response.code = 200
                /\ r.containers = containers
                /\ IF HasContainer(sid) /\ inspect # None
                   THEN /\ r.response.body = inspect
                        /\ r.servers[sid].status = inspect[1]
                        /\ r.servers =
                               [servers EXCEPT ![sid].status = inspect[1]]
                   ELSE /\ r.response.body = Some(servers[sid].status)
                        /\ r.servers = servers

\* the container of a server persisted as running has exited: the status
\* request writes what inspect gives over the persisted status
C13_Witness ==
    \E sid \in DOMAIN servers :
        /\ HasContainer(sid)
        /\ servers[sid].status.status = RUNNING
        /\ servers[sid].status.container_id[1] \in DOMAIN containers
        /\ containers[servers[sid].status.container_id[1]].state = "exited"
        /\ get_server_status(servers[sid].created_by, sid, [call |-> TRUE])
               .servers[sid].status.status = STOPPED

\* C15: when a health request finds the health check failing on a server
\* whose container is running, the request leaves the persisted status.status
\* unhealthy.
C15_HealthMarksUnhealthy ==
    \A u \in Users, sid \in DOMAIN servers, o \in CallOutcomes :
        (/\ Admitted(u, sid)
         /\ HasContainer(sid)
         /\ servers[sid].status.container_id[1] \in DOMAIN containers
         /\ containers[servers[sid].status.container_id[1]].state = "running"
         /\ ~health_check(containers, servers[sid].status.container_id[1],
                          o).healthy)
        => check_server_health(u, sid).servers[sid].status.status = UNHEALTHY

\* C16: get_token returns None and sends nothing when the cache has no token
\* for the user.  When it has one and now >= expires_at - 5 min, the call
\* refreshes inline: it returns the access token of the token the provider
\* has just issued, which is then the cached one, or None when the refresh
\* fails.  Otherwise it returns the cached access token, sends nothing to the
\* identity provider and leaves the cache as it was.
C16_GetToken ==
    \A u \in Users, o \in ProviderOutcomes :
        LET r == get_token(tokens, u, now, o)
        IN  IF u \notin DOMAIN tokens
            THEN r.token = None /\ r.posts = 0 /\ r.tokens = tokens
            ELSE IF now >= tokens[u].expires_at - ExpiryBufferMinutes
            THEN IF tokens[u].refresh_token # None /\ o.ok
                 THEN /\ r.posts = 1
                      /\ r.token = Some(r.tokens[u].access_token)
                      /\ r.token[1] = [sub |-> u, exp |-> now + o.life]
                      /\ \A v \in DOMAIN tokens \ {u} :
                            r.tokens[v] = tokens[v]
                 ELSE r.token = None /\ r.tokens = tokens
            ELSE /\ r.token = Some(tokens[u].access_token)
                 /\ r.posts = 0
                 /\ r.tokens = tokens

\* a get_token call is awaiting the answer to its inline refresh, and a
\* signed-in user's token is not due
C16_Witness ==
    /\ \E k \in DOMAIN calls : calls[k].op = "get"
    /\ \E u \in DOMAIN tokens : ~due(tokens, u, now)

\* C17: at any time at most one refresh task per user is neither finished
\* nor cancelled, whatever sequence of sign_in, sign_out, refresh, get and
\* close calls is made; and a sign_in that replaces the task of a user
\* leaves the earlier task finished or cancelled.
C17_OneRefreshTask ==
    /\ [](\A u \in Users :
            Cardinality({i \in DOMAIN tasks :
                            tasks[i].user_id = u /\ Running(i)}) <= 1)
    /\ [][\A u \in Users, i \in DOMAIN tasks :
            (/\ u \in DOMAIN refresh_tasks
             /\ refresh_tasks[u] = i
             /\ u \in DOMAIN refresh_tasks'
             /\ refresh_tasks'[u] # i)
            => (Terminated(tasks'[i]) \/ tasks'[i].must_cancel)]_vars

\* a user has signed in twice: the first task has its cancellation requested
\* while the second runs
C17_Witness ==
    \E i, j \in DOMAIN tasks :
        /\ tasks[i].user_id = tasks[j].user_id
        /\ tasks[i].must_cancel /\ tasks[i].pc = "sleep"
        /\ Running(j)

\* C18: a sign_out made when no other call is in progress leaves no cached
\* token and no entry in _refresh_tasks for the user, and every task of that
\* user finished or cancelled, so that a get_token that follows returns None
\* without a refresh; the tokens and the tasks of the other users are as
\* before.
C18_SignOut ==
    \A u \in Users :
        calls = <<>> =>
            LET r == sign_out(tokens, refresh_tasks, tasks, u)
            IN  /\ u \notin DOMAIN r.tokens
                /\ u \notin DOMAIN r.refresh_tasks
                /\ DOMAIN r.tasks = DOMAIN tasks
                /\ \A i \in DOMAIN tasks :
                      IF tasks[i].user_id = u
                      THEN Terminated(r.tasks[i]) \/ r.tasks[i].must_cancel
                      ELSE r.tasks[i] = tasks[i]
                /\ \A o \in ProviderOutcomes :
                      LET g == get_token(r.tokens, u, now, o)
                      IN  g.token = None /\ g.posts = 0
                /\ \A v \in Users \ {u} :
                      /\ v \in DOMAIN r.tokens <=> v \in DOMAIN tokens
                      /\ v \in DOMAIN tokens => r.tokens[v] = tokens[v]
                      /\ v \in DOMAIN r.refresh_tasks
                            <=> v \in DOMAIN refresh_tasks
                      /\ v \in DOMAIN refresh_tasks =>
                            r.refresh_tasks[v] = refresh_tasks[v]

\* one user has been signed out while its task slept, and the other user is
\* still signed in with a running task
C18_Witness ==
    \E i, j \in DOMAIN tasks :
        /\ tasks[i].user_id # tasks[j].user_id
        /\ tasks[i].must_cancel
        /\ tasks[i].user_id \notin DOMAIN tokens
        /\ tasks[i].user_id \notin DOMAIN refresh_tasks
        /\ tasks[j].user_id \in DOMAIN tokens
        /\ refresh_tasks[tasks[j].user_id] = j
        /\ Running(j)

\* C20: a refresh that fails (the cached token has no refresh token, the
\* provider rejects, or the POST raises) returns None and leaves the cache as
\* it was, whether it is answered at once or after other steps; a get_token
\* whose inline refresh fails returns None and leaves the cache as it was.
C20_FailedRefreshAbsorbed ==
    \A u \in Users, o \in ProviderOutcomes :
        /\ (~can_refresh(tokens, u) \/ o.raised \/ ~o.ok) =>
              /\ LET r == refresh_token(tokens, u, now, o)
                 IN  r.token = None /\ r.tokens = tokens
              /\ (u \in DOMAIN tokens /\ due(tokens, u, now)) =>
                    LET g == get_token(tokens, u, now, o)
                    IN  g.token = None /\ g.tokens = tokens
        /\ (o.raised \/ ~o.ok) =>
              /\ \A k \in DOMAIN calls :
                    (/\ calls[k].op \in {"get", "refresh"}
                     /\ calls[k].user_id = u)
                    => LET r == refresh_answered(tokens, u,
                                                 calls[k].current[1], now, o)
                       IN  r.token = None /\ r.tokens = tokens
              /\ \A i \in DOMAIN tasks :
                    (tasks[i].pc = "post" /\ tasks[i].user_id = u)
                    => LET r == refresh_answered(tokens, u,
                                                 tasks[i].current[1], now, o)
                       IN  r.token = None /\ r.tokens = tokens

\* a refresh called for a user whose cached token has a refresh token awaits
\* the provider, which can reject it, and another user's cached token has no
\* refresh token
C20_Witness ==
    /\ \E k \in DOMAIN calls :
          /\ calls[k].op = "refresh"
          /\ calls[k].user_id \in DOMAIN tokens
    /\ \E u \in DOMAIN tokens : tokens[u].refresh_token = None

\* the cached token of u is replaced in this step while u's registered task
\* stays the same: a refresh
Refreshed(u) ==
    /\ u \in DOMAIN tokens /\ u \in DOMAIN tokens'
    /\ tokens'[u] # tokens[u]
    /\ u \in DOMAIN refresh_tasks /\ u \in DOMAIN refresh_tasks'
    /\ refresh_tasks'[u] = refresh_tasks[u]

\* C19: when every issued token lives longer than 10 minutes and every
\* refresh succeeds, a cached token is replaced by a refresh only at the
\* time 10 minutes before it expires, and at any time a get_token finds a
\* cached token more than 5 minutes from its expiry and returns it without a
\* request to the identity provider.
C19_ProactiveRefresh ==
    /\ [](\A u \in DOMAIN tokens, o \in ProviderOutcomes :
            /\ tokens[u].access_token.exp - now > ExpiryBufferMinutes
            /\ LET g == get_token(tokens, u, now, o)
               IN  g.posts = 0 /\ g.token = Some(tokens[u].access_token))
    /\ [][\A u \in Users :
            Refreshed(u) =>
                now = tokens[u].access_token.exp - RefreshLeadMinutes]_vars

\* a start and a stop request on server sid have overlapped, and every
\* request has run to completion
OverlapCompleted(sid) ==
    /\ \A k \in DOMAIN requests : requests[k].pc = "done"
    /\ \E j, k \in DOMAIN requests :
          /\ j \in requests[k].during
          /\ requests[k].server.id = sid
          /\ {requests[j].op, requests[k].op} = {"start", "stop"}

\* C14: once overlapping start and stop requests on a server have run to
\* completion, a status request that reaches the runtime leaves the persisted
\* status.status equal to the mapped runtime state of the container that
\* exists for that server.
C14_ConvergesOnInspect ==
    \A sid \in DOMAIN servers :
        OverlapCompleted(sid) =>
            LET r == get_server_status(servers[sid].created_by, sid,
                                       [call |-> TRUE])
            IN  \A c \in ContainersOf(containers, sid,
                                      servers[sid].config.name) :
                    r.servers[sid].status.status =
                        status_map(containers[c].state)

\* C21: close cancels every refresh task (once it has run its first lines no
\* task is left that is neither ended nor has its cancellation requested),
\* and it returns only when every task it cancelled has ended; when it
\* returns no task can run another line, and the cache and _refresh_tasks
\* are empty, so no refresh follows, whatever line of its loop each task was
\* at when close was called.
C21_CloseEndsTasks ==
    /\ [](refresh_tasks = <<>> =>
            \A i \in DOMAIN tasks :
                Terminated(tasks[i]) \/ tasks[i].must_cancel)
    /\ [][\A k \in Sequential :
            (Idle(k) /\ k \in DOMAIN calls' /\ calls'[k].op = "close")
            => \A i \in DOMAIN tasks' :
                  Terminated(tasks'[i]) \/ tasks'[i].must_cancel]_vars
    /\ [][\A k \in DOMAIN calls :
            (calls[k].op = "close" /\ k \notin DOMAIN calls')
            => /\ \A i \in calls[k].gather : Terminated(tasks'[i])
               /\ \A i \in DOMAIN tasks' :
                     Terminated(tasks'[i]) \/ tasks'[i].must_cancel
               /\ tokens' = <<>>
               /\ refresh_tasks' = <<>>]_vars

\* close is about to return: it cancelled a task that slept and a task that
\* awaited the provider, and both have ended
C21_Witness ==
    \E k \in DOMAIN calls :
        /\ calls[k].op = "close"
        /\ Cardinality(calls[k].gather) = 2
        /\ \A i \in calls[k].gather : tasks[i].pc = "cancelled"


\* keys a caller may hand the Supervisor: ids and names of containers that
\* exist or not
SupervisorKeys ==
    {ContainerId(i) : i \in 1..MaxCids}
        \cup {container_name(Lower(n)) : n \in ReqNames} \cup {"gone"}

\* s is a status object, as opposed to an exception
IsStatus(s) ==
    /\ DOMAIN s = DOMAIN MCPServerStatus("", ERROR)
    /\ s.status \in {STOPPED, STARTING, RUNNING, STOPPING, ERROR, UNHEALTHY}

ErrorWithMessage(s) ==
    IsStatus(s) /\ s.status = ERROR /\ s.error_message # None

\* C22: every Supervisor operation returns a value of its result type for
\* every outcome of its runtime calls; create, start, stop and restart return
\* a status in state error with a message when the container is missing or a
\* runtime call raises
C22_SupervisorReturnsErrors ==
    /\ \A key \in SupervisorKeys :
         LET missing == _get_container(containers, key) = None
         IN  /\ \A o \in StartOutcomes :
                  LET started == start_container(containers, key, now, o)
                      restarted == restart_container(containers, key, now, o)
                  IN  /\ IsStatus(started.status)
                      /\ IsStatus(restarted.status)
                      /\ (missing \/ ~o.call \/ ~o.reload)
                            => /\ ErrorWithMessage(started.status)
                               /\ ErrorWithMessage(restarted.status)
             /\ \A o \in CallOutcomes :
                  LET stopped == stop_container(containers, key, now, o)
                      inspected == get_container_status(containers, key, now, o)
                      health == health_check(containers, key, o)
                  IN  /\ IsStatus(stopped.status)
                      /\ (missing \/ ~o.call)
                            => ErrorWithMessage(stopped.status)
                      /\ remove_container(containers, key, o).ok \in Booleans
                      /\ inspected = None \/ IsStatus(inspected[1])
                      /\ (missing \/ ~o.call) => inspected = None
                      /\ health.healthy \in Booleans
                      /\ (missing \/ ~o.call)
                            => ~health.healthy /\ health.error # None
    /\ \A sid \in DOMAIN servers, image \in ReqImages, o \in CreateOutcomes :
         LET config == [servers[sid].config EXCEPT !.docker_image = image]
             existing == _get_container(containers,
                                        container_name(config.name)) # None
             made == create_container(containers, ContainerId(nextCid), sid,
                                      config, o)
         IN  /\ IsStatus(made.status)
             /\ (image \notin Images \/ ~o.call \/ (existing /\ ~o.rm))
                   => /\ ErrorWithMessage(made.status)
                      /\ made.container_id = ""
    /\ \A o \in CallOutcomes :
         /\ IsFiniteSet(list_mcp_containers(containers, o))
         /\ ~o.call => list_mcp_containers(containers, o) = {}

\* a running container, on which start, stop and restart have a runtime call
\* that raises, beside keys of no container
C22_Witness ==
    \E c \in DOMAIN containers :
        /\ containers[c].state = "running"
        /\ \E key \in SupervisorKeys : _get_container(containers, key) = None
        /\ stop_container(containers, c, now, [call |-> FALSE]).status.status
              = ERROR


\* C23: in the environment of every container, and of every container a
\* create makes for a registered server, the keys MCP_SERVER_NAME,
\* MCP_SERVER_ID, MCP_TRANSPORT and MCP_PORT carry the Supervisor's values:
\* the name, the id, the transport and the port of the server's config
C23_SupervisorKeysWin ==
    /\ \A c \in DOMAIN containers :
          /\ containers[c].environment["MCP_SERVER_ID"]
                = containers[c].server_id
          /\ container_name(containers[c].environment["MCP_SERVER_NAME"])
                = containers[c].name
    /\ \A sid \in DOMAIN servers, o \in CreateOutcomes :
          LET config == servers[sid].config
              made == create_container(containers, ContainerId(nextCid), sid,
                                       config, o)
          IN  made.container_id # "" =>
                \A k \in DOMAIN fixed_environment(sid, config) :
                    made.ctrs[made.container_id].environment[k]
                        = fixed_environment(sid, config)[k]


\* the patches of description and environment, each left out or given
AllPatches ==
    [description : {None} \cup {Some(d) : d \in Descriptions},
     environment : {None} \cup {Some(e) : e \in Environments}]

\* C24: an update of a record's config changes the config fields the patch
\* gives and nothing else: the other records, the record's id, created_by
\* and status and the config fields the patch leaves out are as before, and
\* with an empty patch the registry is as before; the update request of the
\* owner stores exactly that and touches no container
C24_UpdateFrame ==
    \A sid \in DOMAIN servers, patch \in AllPatches :
        LET reg == registry_update_server(servers, sid, patch)
            old == servers[sid]
            new == reg[sid]
            r == update_server(old.created_by, sid, patch)
        IN  /\ DOMAIN reg = DOMAIN servers
            /\ \A other \in DOMAIN servers \ {sid} :
                  reg[other] = servers[other]
            /\ new.id = old.id
            /\ new.created_by = old.created_by
            /\ new.status = old.status
            /\ DOMAIN new.config = DOMAIN old.config
            /\ \A f \in DOMAIN old.config :
                  new.config[f] = IF f \in DOMAIN patch /\ patch[f] # None
                                  THEN patch[f][1] ELSE old.config[f]
            /\ (\A f \in DOMAIN patch : patch[f] = None) => reg = servers
            /\ r.servers = reg
            /\ r.containers = containers

\* a record whose description an update has set, its container running: the
\* patches that leave the description out have a field to keep
C24_Witness ==
    \E sid \in DOMAIN servers :
        /\ servers[sid].config.description \in Descriptions
        /\ servers[sid].status.status = RUNNING
        /\ servers[sid].status.container_id # None


\* C25: a restart request of the owner on a record with no container_id
\* is not refused: when its runtime calls succeed and the container comes up,
\* the server has a container in the runtime afterwards and the persisted
\* status is running with a container_id, as after a start
C25_RestartCreates ==
    \A sid \in DOMAIN servers :
        servers[sid].status.container_id = None =>
            \A o \in AllRestartOutcomes :
                LET r == restart_server(servers[sid].created_by, sid, o)
                IN  /\ r.response.code = 200
                    /\ (o.start.call /\ o.start.up /\ o.start.reload) =>
                          /\ ContainersOf(r.containers, sid,
                                          servers[sid].config.name) # {}
                          /\ r.servers[sid].status.status = RUNNING
                          /\ r.servers[sid].status.container_id # None


\* C26: a health request of the owner on a server whose record has a
\* container_id answers 200 with the Supervisor's {healthy, error}: healthy
\* is false, with a reason, when the container is not running; and the
\* record's status then carries that health_check_passed and a
\* last_health_check
C26_HealthAnswers ==
    \A sid \in DOMAIN servers, o \in CallOutcomes :
        HasContainer(sid) =>
            LET key == servers[sid].status.container_id[1]
                health == health_check(containers, key, o)
                r == check_server_health(servers[sid].created_by, sid)
            IN  /\ r.response.code = 200
                /\ r.response.success = health.healthy
                /\ (key \in DOMAIN containers
                        /\ containers[key].state # "running")
                      => ~r.response.success /\ r.response.detail # ""
                /\ r.servers[sid].status.health_check_passed = health.healthy
                /\ r.servers[sid].status.last_health_check # None


\* request c waits for the runtime: in the executor call of a stop, or in
\* the next() of a log stream
WaitsOnRuntime(c) == c.pc = "stop" \/ (c.op = "logs" /\ c.pc = "next")

\* request c has a step to run as soon as the event loop thread takes it
Ready(c) ==
    \/ c.pc = "persist"
    \/ c.op = "logs" /\ c.pc \in {"open", "yield"}

\* C27: while a request waits for the runtime (a stop in its executor call,
\* a log stream for the container's next line), every other request that is
\* ready can take its next step
C27_SchedulerNeverHeld ==
    \A k \in DOMAIN requests :
        WaitsOnRuntime(requests[k]) =>
            \A j \in DOMAIN requests \ {k} :
                Ready(requests[j]) => ENABLED Runs(j)


\* C28: a record is stored under its id, and every step of the system
\* (update, start, stop, restart, status and health requests among them)
\* leaves the id and the created_by of each record it does not delete as
\* they were
C28_IdentityKept ==
    /\ [](\A sid \in DOMAIN servers : servers[sid].id = sid)
    /\ [][\A sid \in DOMAIN servers \cap DOMAIN servers' :
            /\ servers'[sid].id = servers[sid].id
            /\ servers'[sid].created_by = servers[sid].created_by]_vars

\* a record updated by a patch whose persisted status is one the Supervisor
\* built with an empty server_id
C28_Witness ==
    \E sid \in DOMAIN servers :
        /\ servers[sid].status.server_id = ""
        /\ servers[sid].config.description \in Descriptions


\* C29: removing a container that does not exist returns success and leaves
\* the runtime as it is, whatever the runtime would answer; so after a remove
\* that removed a container, a second remove of the same container returns
\* success too and changes nothing
C29_RemoveIdempotent ==
    \A key \in SupervisorKeys :
        /\ _get_container(containers, key) = None =>
              \A o \in CallOutcomes :
                  /\ remove_container(containers, key, o).ok
                  /\ remove_container(containers, key, o).ctrs = containers
        /\ \A o \in CallOutcomes :
              LET once == remove_container(containers, key, [call |-> TRUE])
                  twice == remove_container(once.ctrs, key, o)
              IN  /\ once.ok
                  /\ _get_container(once.ctrs, key) = None
                  /\ twice.ok
                  /\ twice.ctrs = once.ctrs

\* a container a first remove takes away, beside a key of no container
C29_Witness ==
    /\ \E key \in SupervisorKeys :
          /\ _get_container(containers, key) # None
          /\ remove_container(containers, key, [call |-> TRUE]).ctrs
                # containers
    /\ \E key \in SupervisorKeys : _get_container(containers, key) = None


\* the lifecycle state the inspect table gives a runtime state word
Lifecycle(word) ==
    IF word = "running" THEN RUNNING
    ELSE IF word \in {"exited", "paused"} THEN STOPPED
    ELSE IF word = "restarting" THEN STARTING
    ELSE ERROR

\* C30: inspect returns null for a key of no container; for a container it
\* returns, when its runtime calls succeed, a status whose state is running
\* for the word running, stopped for exited and paused, starting for
\* restarting, error for dead and for every other word, and never unhealthy
\* or stopping
C30_InspectMap ==
    /\ \A word \in ContainerStates \cup {"unknown"} :
          /\ status_map(word) = Lifecycle(word)
          /\ status_map(word) \notin {UNHEALTHY, STOPPING}
    /\ \A key \in SupervisorKeys, o \in CallOutcomes :
          LET container == _get_container(containers, key)
              inspected == get_container_status(containers, key, now, o)
          IN  /\ container = None => inspected = None
              /\ (container # None /\ o.call) =>
                    /\ inspected # None
                    /\ inspected[1].status
                          = Lifecycle(containers[container[1]].state)
              /\ inspected # None =>
                    inspected[1].status \notin {UNHEALTHY, STOPPING}

\* a status request has persisted starting, read from a restarting
\* container, while another container is paused
C30_Witness ==
    /\ \E sid \in DOMAIN servers : servers[sid].status.status = STARTING
    /\ \E c \in DOMAIN containers : containers[c].state = "paused"


\* C31: a refresh task that has ended stays as it is, and one whose
\* cancellation is requested only ends; the task of a user whose token leaves
\* the cache is ended or has its cancellation requested, and then ends; a task
\* whose refresh is answered ends exactly when the refresh returns null, and
\* otherwise goes on to its next sleep or refresh with the user's new token
\* cached
C31_RefreshTaskEnds ==
    /\ [][\A i \in DOMAIN tasks :
            /\ Terminated(tasks[i]) => tasks'[i] = tasks[i]
            /\ tasks[i].must_cancel =>
                  tasks'[i] = tasks[i] \/ tasks'[i].pc = "cancelled"
            /\ (tasks[i].pc = "post" /\ tasks'[i].pc = "done") =>
                  \E o \in ProviderOutcomes :
                      LET r == refresh_answered(tokens, tasks[i].user_id,
                                                tasks[i].current[1], now, o)
                      IN  r.token = None /\ tokens' = r.tokens
            /\ (tasks[i].pc = "post" /\ tasks'[i] # tasks[i]
                    /\ ~Terminated(tasks'[i]) /\ ~tasks'[i].must_cancel) =>
                  /\ tasks[i].user_id \in DOMAIN tokens'
                  /\ tasks'[i].pc \in {"sleep", "post"}
                  /\ \E o \in ProviderOutcomes :
                        LET r == refresh_answered(tokens, tasks[i].user_id,
                                                  tasks[i].current[1], now, o)
                        IN  r.token # None /\ tokens' = r.tokens]_vars
    /\ [][\A u \in DOMAIN refresh_tasks :
            (u \in DOMAIN tokens /\ u \notin DOMAIN tokens') =>
                \/ Terminated(tasks'[refresh_tasks[u]])
                \/ tasks'[refresh_tasks[u]].must_cancel]_vars
    /\ \A i \in 1..MaxTasks :
          (i \in DOMAIN tasks /\ tasks[i].must_cancel)
              ~> (i \in DOMAIN tasks /\ Terminated(tasks[i]))

\* a task ended by a refresh that returned null, beside a task that a
\* sign-out or a second sign-in cancelled while it awaited the provider
C31_Witness ==
    /\ \E i \in DOMAIN tasks : tasks[i].pc = "done" /\ tasks[i].user_id \in DOMAIN tokens
    /\ \E i \in DOMAIN tasks : tasks[i].pc = "cancelled"


\* the containers of the runtime with a given name
Named(ctrs, name) == {c \in DOMAIN ctrs : ctrs[c].name = name}

\* C32: no two containers of the runtime have the same name; a create for a
\* registered server whose removal and creation calls succeed on a resolvable
\* image succeeds, also when a container named mcp-<config.name> exists; and
\* after every successful create that name belongs to exactly one container,
\* the new one, which is not started, the returned status being stopped with
\* that container's id
C32_CreateReplaces ==
    /\ \A c, d \in DOMAIN containers :
          containers[c].name = containers[d].name => c = d
    /\ \A sid \in DOMAIN servers, image \in ReqImages, o \in CreateOutcomes :
          LET config == [servers[sid].config EXCEPT !.docker_image = image]
              name == container_name(config.name)
              cid == ContainerId(nextCid)
              made == create_container(containers, cid, sid, config, o)
          IN  /\ (image \in Images /\ o.rm /\ o.call) => made.container_id = cid
              /\ made.container_id # "" =>
                    /\ made.container_id = cid
                    /\ cid \notin DOMAIN containers
                    /\ Named(made.ctrs, name) = {cid}
                    /\ made.ctrs[cid].state = "created"
                    /\ made.ctrs[cid].server_id = sid
                    /\ made.status.status = STOPPED
                    /\ made.status.container_id = Some(cid)
                    /\ \A c \in DOMAIN containers \ Named(containers, name) :
                          c \in DOMAIN made.ctrs /\ made.ctrs[c] = containers[c]

\* a record that lost its container_id while its container still exists and
\* runs: the next start creates over it
C32_Witness ==
    \E sid \in DOMAIN servers :
        /\ servers[sid].status.container_id = None
        /\ \E c \in Named(containers,
                          container_name(servers[sid].config.name)) :
              containers[c].state = "running"

\* the create requests of the overlapping system that were given no port
Omitting == {k \in DOMAIN requests :
                requests[k].op = "create" /\ requests[k].omitted}

\* the create request has inserted its record and the record is in the table
Inserted(k) ==
    /\ requests[k].op = "create"
    /\ requests[k].server # None
    /\ requests[k].server[1].id \in DOMAIN servers

\* C33: a create request that omits the port is given the first port from
\* StartPort that is not among the ports it read, and its insert stores that
\* port whatever was inserted since the read: the insert is refused for a
\* taken name only, never for a taken port.  So two overlapping create
\* requests that omit the port and read the same ports are given the same
\* port, and when neither is refused for its name both insert and leave two
\* records with the same config.port
C33_SamePortRace ==
    /\ \A k \in Omitting :
          /\ requests[k].req.port = Some(ScanPort(requests[k].used, StartPort))
          /\ Inserted(k) =>
                servers[requests[k].server[1].id].config.port =
                    ScanPort(requests[k].used, StartPort)
    /\ \A k \in Omitting :
          requests[k].pc = "insert" =>
             register_server(servers, ServerId(nextId), requests[k].req,
                             requests[k].user_id).ok
                 = ~NameTaken(servers, Lower(requests[k].req.name))
    /\ \A j \in Omitting, k \in Omitting :
          (/\ j # k
           /\ requests[j].used = requests[k].used
           /\ requests[j].pc # "insert" /\ requests[k].pc # "insert"
           /\ requests[j].code # 400 /\ requests[k].code # 400)
          => /\ requests[j].server # None /\ requests[k].server # None
             /\ requests[j].server[1].id # requests[k].server[1].id
             /\ requests[j].server[1].config.port =
                    requests[k].server[1].config.port

\* two create requests that omitted the port have overlapped, both have
\* answered 200, and their two records have the same port
C33_Witness ==
    \E j \in Omitting, k \in Omitting :
        /\ j # k
        /\ requests[j].used = requests[k].used
        /\ requests[j].pc = "done" /\ requests[j].code = 200
        /\ requests[k].pc = "done" /\ requests[k].code = 200
        /\ Inserted(j) /\ Inserted(k)
        /\ requests[j].server[1].id # requests[k].server[1].id
        /\ servers[requests[j].server[1].id].config.port =
               servers[requests[k].server[1].id].config.port

\* the record of sid and the containers of its name
RecordOf(sid) == IF sid \in DOMAIN servers THEN Some(servers[sid]) ELSE None
ContainersNamed(name) ==
    {<<c, containers[c]>> : c \in Named(containers, container_name(name))}

\* the answers a start request of its owner on sid can get from the runtime
StartAnswers(sid) ==
    LET u == servers[sid].created_by
    IN  {start_server(u, sid, o).response.success :
            o \in BindingChoices(u, sid, StartChoices(u, sid))}

\* C34: a request changes the record and the containers of one server only,
\* and what a request on server A can be answered does not depend on the
\* state of another server B: a step that leaves A's record and A's
\* containers as they are leaves the answers a start of A can get as they
\* are
C34_Independent ==
    /\ [][\A i \in AllIds, j \in AllIds :
            (i # j /\ i \in DOMAIN servers /\ j \in DOMAIN servers)
            => \/ (RecordOf(i)' = RecordOf(i)
                   /\ ContainersNamed(servers[i].config.name)'
                          = ContainersNamed(servers[i].config.name))
               \/ (RecordOf(j)' = RecordOf(j)
                   /\ ContainersNamed(servers[j].config.name)'
                          = ContainersNamed(servers[j].config.name))]_vars
    /\ [][\A sid \in DOMAIN servers :
            (/\ RecordOf(sid)' = RecordOf(sid)
             /\ ContainersNamed(servers[sid].config.name)'
                    = ContainersNamed(servers[sid].config.name)
             /\ HasContainer(sid))
            => StartAnswers(sid)' = StartAnswers(sid)]_vars

\* C35: in every persisted status in which both started_at and stopped_at
\* are set, started_at <= stopped_at.  The code keeps it so by never setting
\* both: a status is built anew by each operation, with started_at by a
\* start or a restart and with stopped_at by a stop, each the clock at the
\* call, and the status that replaces a started one is stamped no earlier
C35_StartBeforeStop ==
    /\ [](\A sid \in DOMAIN servers :
            LET status == servers[sid].status
            IN  /\ (status.started_at # None /\ status.stopped_at # None)
                   => status.started_at[1] <= status.stopped_at[1]
                /\ status.started_at = None \/ status.stopped_at = None
                /\ status.started_at # None => status.started_at[1] <= now
                /\ status.stopped_at # None => status.stopped_at[1] <= now)
    /\ [][\A sid \in DOMAIN servers :
            (/\ sid \in DOMAIN servers'
             /\ servers[sid].status.started_at # None
             /\ servers'[sid].status.stopped_at # None)
            => servers[sid].status.started_at[1]
                   <= servers'[sid].status.stopped_at[1]]_vars

\* a server started at one time has been stopped at a later time
C35_Witness ==
    \E sid \in DOMAIN servers :
        /\ servers[sid].status.status = STOPPED
        /\ servers[sid].status.stopped_at # None
        /\ servers[sid].status.stopped_at[1] > 0

\* C36: in every persisted status, status.server_id is the id of the record
\* that holds it, after any sequence of create, start, stop, restart, status
\* and health requests, those whose runtime call fails included
C36_StatusServerId ==
    \A sid \in DOMAIN servers :
        /\ servers[sid].id = sid
        /\ servers[sid].status.server_id = servers[sid].id

\* C38: between requests, every container the control plane created that
\* still exists in the runtime is the status.container_id of an existing
\* record, and no request makes a record that stays in the registry lose the
\* container_id of a container that still exists
C38_ContainersReferenced ==
    /\ [](\A c \in DOMAIN containers :
            \E sid \in DOMAIN servers :
                servers[sid].status.container_id = Some(c))
    /\ [][\A sid \in DOMAIN servers :
            (/\ sid \in DOMAIN servers'
             /\ servers[sid].status.container_id # None
             /\ servers[sid].status.container_id[1] \in DOMAIN containers')
            => servers'[sid].status.container_id
                   = servers[sid].status.container_id]_vars

\* a sign_in call for u gets its answer in this step
SignInReturns(u) ==
    \E k \in DOMAIN calls :
        /\ calls[k].op = "sign_in" /\ calls[k].user_id = u
        /\ k \notin DOMAIN calls'

\* C37: once sign_out(user_id) has returned the cache holds no token for the
\* user until the next sign_in: a token for a user the cache does not hold
\* enters the cache only in the step that answers a sign_in for that user,
\* under every interleaving of the calls and the refresh tasks
C37_SignedOutStaysOut ==
    [][\A u \in Users :
          (u \notin DOMAIN tokens /\ u \in DOMAIN tokens') => SignInReturns(u)
      ]_vars

\* the update requests on sid that have returned 200 with a patch of field
Returned(sid, field) ==
    {k \in DOMAIN requests :
        /\ requests[k].op = "update" /\ requests[k].id = sid
        /\ requests[k].pc = "done" /\ requests[k].code = 200
        /\ requests[k].patch[field] # None}

\* C39: when two update requests on one server, one patching description
\* only and one patching environment only, have both returned, the stored
\* config carries the description of the one and the environment of the
\* other, under every interleaving of the two
C39_BothPatchesStored ==
    \A sid \in DOMAIN servers :
        \A j \in Returned(sid, "description"),
           k \in Returned(sid, "environment") :
            /\ servers[sid].config.description
                   = requests[j].patch.description[1]
            /\ servers[sid].config.environment
                   = requests[k].patch.environment[1]

\* the refresh tasks of u that are neither finished nor cancelled
LiveTasks(u) ==
    {i \in DOMAIN tasks :
        /\ tasks[i].user_id = u
        /\ ~Terminated(tasks[i])
        /\ ~tasks[i].must_cancel}

\* C40: whenever the cache holds a token with a refresh_token for a user, a
\* refresh task that is neither finished nor cancelled exists for that user
\* (while the manager is not being closed)
C40_RefreshTaskLive ==
    (\A k \in DOMAIN calls : calls[k].op # "close")
    => \A u \in DOMAIN tokens :
          tokens[u].refresh_token # None => LiveTasks(u) # {}

====
